---- MODULE Spec2Model ----
(***************************************************************************)
(* Nevira voice assistant: the client-side room session controller of     *)
(* nevira-ui/src/App.jsx, as a state machine.                              *)
(*                                                                         *)
(* React state (room, connected, connecting, error, participants, logs,    *)
(* autoConnect) and the refs the handlers share are the variables.  Every  *)
(* action is one run of a handler between two suspension points (await),   *)
(* followed by the effects React runs after the resulting render           *)
(* (RenderEffects).  The LiveKit rooms a connect attempt creates are       *)
(* numbered 1..MaxRooms; 0 stands for null.                                *)
(***************************************************************************)
EXTENDS Integers, Sequences, FiniteSets, TLC

----------------------------------------------------------------------------
(* Bounds of the model *)

\* connect attempts (token requests) explored, and so rooms created
MaxRooms == 2
\* participant events the room service emits in one run
MaxPartEvents == 2
\* disconnectFromRoom continuations that may be pending on one room
MaxPendingDisc == 2
\* getUserMedia fallbacks of the meter that may be pending at once
MaxGum == 1
\* chat entries a run collects
MaxMsgs == 2
\* log entries after which no more data is delivered
MaxChatLogs == 2
\* publishData calls a run makes
MaxSent == 2
\* toggleMute calls that may be pending at once
MaxPendingMute == 1

\* POST /token requests a run of the token server handles
MaxReqs == 3

ReqIds == 1..MaxReqs

\* process.env.MAX_PARTICIPANTS || '2' (server.js:55)
MaxParticipants == 2

\* publishData calls in a run that follows the error
\* contacts the manager is given to hold
MaxContacts == 2
\* the latest millisecond Date.now() reaches
MaxClock == 3
MaxErrSent == 1
\* track subscriptions in a run that follows the indicators
MaxSubs == 2
\* the window of the agent-speaking flag, in seconds (App.jsx:204)
SpeakWindow == 3
\* participant events in a run that follows the participant list
MaxMemberEvents == 3
\* samples in a window of the meter (dataArray.length, 1024 in the browser)
WinLen == 3
\* the byte a silent signal reads as (App.jsx:160)
Mid == 128
\* the factor from the rms to the level (App.jsx:165)
Gain == 220
\* the top of the level's range (App.jsx:165)
LevelMax == 100

\* a request not yet made
NoRequest ==
    [pc |-> "none", identity |-> "", room |-> "", query |-> "none",
     status |-> "none", token |-> "none", respRoom |-> "none"]

\* of the payload variable: no data was received yet
NoPayload == [raw |-> "", syntax |-> "none", fields |-> <<>>]

\* remote identities that may join a room
Ids == {"nevira_agent"}

\* the log keeps the newest 50 entries (App.jsx:188, 221, 228, 241)
LogCap == 50

Rooms == 1..MaxRooms
NoRoom == 0

\* responses of POST /token the client can see: an HTTP status, or no
\* response at all (transport failure)
TokenOutcomes == {"200", "403", "500", "network"}
\* outcomes of an awaited call of the room service or the platform
Outcomes == {"resolved", "rejected"}
\* state of the audio context created at App.jsx:115
CtxStates == {"running", "suspended", "throws"}
\* what setupMicLevelAnalyser finds: a published local audio track, none
\* (fallback to getUserMedia), or an exception
AnalyserOutcomes == {"track", "fallback", "throws"}

VARIABLES
    room,          \* useState room: NoRoom or the stored Room
    connected,     \* useState connected
    connecting,    \* useState connecting
    error,         \* useState error ("null" or a message)
    participants,  \* useState participants (the entries shown)
    logs,          \* useState logs, newest first
    autoConnect,   \* useState autoConnect
    loop,          \* a requestAnimationFrame tick of the meter is scheduled
    gum,           \* getUserMedia fallbacks of the meter still pending
    att,           \* position of the connect attempt in flight
    attRoom,       \* newRoom of the attempt in flight
    roomState,     \* room service: state of each Room's connection
    remote,        \* room service: room.remoteParticipants of each Room
    discPending,   \* disconnectFromRoom calls awaiting room.disconnect()
    tokenReqs,     \* POST /token requests issued so far
    roomConnects,  \* newRoom.connect() calls issued so far
    attToken,      \* what the latest token request returned ("none": nothing yet)
    handler,       \* the handler that ran last
    micOn,         \* room service: the local microphone of each Room is published
    listeners,     \* room service: the handlers of setupRoomListeners are
                   \* registered on the Room
    muted,         \* useState muted
    mutePending,   \* toggleMute calls awaiting setMicrophoneEnabled
    messages,      \* useState messages (the chat), oldest first
    showEmailPopup, \* useState showEmailPopup
    sent,          \* publishData calls made so far, oldest first
    toolPending,   \* triggerTool calls awaiting publishData
    lastPayload,   \* the payload of the latest DataReceived event
    srvReq,        \* token server: the POST /token requests and their handling
    srvRoom,       \* room service: the identities in the room
    srvIssued,     \* token server: the identities a token was minted for
    srvProc,       \* token server: the process, and the credentials it read
    inputMessage,  \* useState inputMessage
    sendPending,   \* sendMessage calls awaiting publishData
    emailForm,     \* useState emailForm
    emailSending,  \* useState emailSending
    emailPending,  \* handleEmailSubmit calls awaiting publishData
    emailTimers,   \* 1000 ms timers of handleEmailSubmit still to fire
    showEmailSentPopup, \* useState showEmailSentPopup
    storage,       \* localStorage: what the key nevira_prefs holds
    fontSize,      \* useState fontSize
    theme,         \* useState theme
    selectedMicId, \* useState selectedMicId
    micDevices,    \* useState micDevices (device ids)
    mounted,       \* the component has mounted
    devPending,    \* refreshDevices calls awaiting the device list, each
                   \* with the selectedMicId of the render that made it
    bootPrefs,     \* what storage held at mount, until the user changes a
                   \* setting
    micPending,    \* changes of the Voice tab's microphone select awaiting
                   \* setMicrophoneEnabled: the room each was issued on
    contacts,      \* ContactManager: useState contacts
    editing,       \* ContactManager: useState editing
    name,          \* ContactManager: useState name
    email,         \* ContactManager: useState email
    contactStore,  \* localStorage: what the key nevira_contacts_ui holds
    now,           \* Date.now()
    cmMounted,     \* the ContactManager has mounted
    agentSpeaking, \* useState agentSpeaking
    agentTimers,   \* the 3000 ms timers of TrackSubscribed still to fire:
                   \* the seconds each has left, oldest first
    speaking,      \* useState speaking
    lastSpeakers,  \* the speakers of the latest ActiveSpeakersChanged
    micLevel,      \* useState micLevel
    lastWindow     \* the samples the latest tick of the meter read

vars == <<room, connected, connecting, error, participants, logs, autoConnect,
          loop, gum, att, attRoom, roomState, remote, discPending, tokenReqs,
          roomConnects, attToken, handler, micOn, listeners, muted, mutePending,
          messages, showEmailPopup, sent, toolPending, lastPayload, srvReq,
          srvRoom, srvIssued, srvProc, inputMessage, sendPending, emailForm,
          emailSending, emailPending, emailTimers, showEmailSentPopup,
          storage, fontSize, theme, selectedMicId, micDevices, mounted,
          devPending, bootPrefs, micPending, contacts, editing, name, email,
          contactStore, now, cmMounted, agentSpeaking, agentTimers,
          speaking, lastSpeakers, micLevel, lastWindow>>

\* state of the token server and of the room it guards
serverVars == <<srvReq, srvRoom, srvIssued, srvProc>>

\* state of the chat input and of the email form
composeVars == <<inputMessage, sendPending, emailForm, emailSending,
                 emailPending, emailTimers, showEmailSentPopup>>

\* the settings other than autoConnect, their storage, and the device list
prefVars == <<storage, fontSize, theme, selectedMicId, micDevices, mounted,
              devPending, bootPrefs, micPending>>

\* state of the contact manager
contactVars == <<contacts, editing, name, email, contactStore, now, cmMounted>>

\* what the meter and the indicators show
indicatorVars == <<agentSpeaking, agentTimers, speaking, lastSpeakers>>
viewVars == <<micLevel, lastWindow, indicatorVars>>

\* state of the mute button, the chat and the tools panel: the handlers of
\* the session (connect, disconnect, room membership) never write it
panelVars == <<muted, mutePending, messages, showEmailPopup, sent, toolPending,
               lastPayload>>

----------------------------------------------------------------------------
(* Helpers *)

\* the log without its slice
AddLogUnbounded(l, msg) == <<msg>> \o l

\* setLogs((l) => [{msg}, ...l].slice(0, 50))
AddLog(l, msg) == SubSeq(<<msg>> \o l, 1, IF Len(l) + 1 > LogCap THEN LogCap ELSE Len(l) + 1)

\* room.disconnect() of the room service: an open connection starts to
\* close; on any other room (or null) there is nothing to tear down.
RoomDisconnectCall(rs, r) ==
    IF r # NoRoom /\ rs[r] = "open" THEN [rs EXCEPT ![r] = "closing"] ELSE rs

\* the connection of room r is up (the service still holds the session)
IsOpen(rs, r) == rs[r] \in {"open", "closing"}

\* newRoom.connect() has resolved successfully on r at some point
ConnectResolved(rs, r) == rs[r] \in {"open", "closing", "closed"}

\* response.ok never consulted: every response counts as a success
ResponseOkAlways(status) == TRUE

\* response.ok of fetch
ResponseOk(status) == status = "200"

\* the message connectToRoom's catch stores for a failed token request
TokenErrorMsg(status) ==
    IF status = "network" THEN "Failed to fetch"
    ELSE "Token request failed: " \o status

NumRooms == Cardinality({r \in Rooms : roomState[r] # "none"})

----------------------------------------------------------------------------
(* The meter: setupMicLevelAnalyser (App.jsx:139-181) *)

\* the sampling loop after setupMicLevelAnalyser ran with outcome an:
\* with a published track setupWithStream cancels the scheduled tick and
\* schedules a new one; the fallback and a swallowed exception leave it.
AnalyserLoop(an, lp) == IF an = "track" THEN TRUE ELSE lp

\* the pending getUserMedia calls after setupMicLevelAnalyser ran
AnalyserGum(an, g) == IF an = "fallback" THEN g + 1 ELSE g

\* the bytes getByteTimeDomainData can write into the Uint8Array: the
\* extremes, silence, and a quiet signal
Samples == {0, 128, 144, 255}

\* the windows a tick can read
Windows == [1..WinLen -> Samples]

\* the loop of tick: v = (dataArray[i] - 128) / 128, sum += v * v.  The sum
\* is kept exact as the sum of the squared numerators, over 128^2.
RECURSIVE SumSquares(_)
SumSquares(w) ==
    IF w = <<>> THEN 0 ELSE (Head(w) - Mid) ^ 2 + SumSquares(Tail(w))

\* Math.round(Math.sqrt(sum / n) * 220) for sum = s / 128^2: the largest k
\* with k - 1/2 <= (220 / 128) * sqrt(s / n), that is k = 0 or
\* ((2k - 1) * 128)^2 * n <= (2 * 220)^2 * s; both sides are divided by 64
\* to keep the products small.
RoundedRms(s, n) ==
    LET fits(k) == \/ k = 0
                   \/ ((2 * k - 1) * (Mid \div 8)) ^ 2 * n <= (Gain \div 4) ^ 2 * s
    IN  CHOOSE k \in 0..Gain : fits(k) /\ ~fits(k + 1)

Min(a, b) == IF a < b THEN a ELSE b
Max(a, b) == IF a > b THEN a ELSE b

\* the level without Math.min
LevelUnclamped(w) == Max(0, RoundedRms(SumSquares(w), Len(w)))

\* Math.min(100, Math.max(0, Math.round(rms * 220)))
Level(w) == Min(LevelMax, Max(0, RoundedRms(SumSquares(w), Len(w))))

----------------------------------------------------------------------------
(* Effects React runs after a render *)

\* the effect also keyed on connected: it would run again when the
\* connection drops
AutoConnectDepsWithConnected(oldAc, newAc, oldCn, newCn) ==
    oldAc # newAc \/ oldCn # newCn

\* dependency array of the auto-connect effect: [autoConnect]
AutoConnectDepsChanged(oldAc, newAc, oldCn, newCn) == oldAc # newAc

\* the effect without its state check
AutoConnectGuardMissing(ac, cn, cg) == ac

\* if (autoConnect && !connected && !connecting) connectToRoom()
AutoConnectGuard(ac, cn, cg) == ac /\ ~cn /\ ~cg

\* the Connect button is rendered when !connected and disabled while
\* connecting
ConnectButtonEnabled(cn, cg) == ~cn /\ ~cg

\* the Disconnect button is rendered in the connected section only
DisconnectButtonShown(cn) == cn

\* cleanup of the effect keyed on [room], run when the stored room changes:
\* the previous room (if any) is disconnected ...
CleanupRooms(rs, oldRoom, newRoom) ==
    IF newRoom # oldRoom THEN RoomDisconnectCall(rs, oldRoom) ELSE rs

\* ... and the scheduled tick of the meter is cancelled
CleanupLoop(lp, oldRoom, newRoom) ==
    IF newRoom # oldRoom THEN FALSE ELSE lp

----------------------------------------------------------------------------
(* The preferences in localStorage (App.jsx:330-345) *)

\* a JSON value: its type and its text
Val(t, v) == [t |-> t, v |-> v]
Undef == Val("undefined", "")

\* JavaScript's truthiness, and String()
Truthy(x) ==
    CASE x.t = "undefined" -> FALSE
      [] x.t = "boolean" -> x.v = "true"
      [] x.t = "number" -> x.v # "0"
      [] OTHER -> x.v # ""
ToStr(x) == x.v

\* what localStorage.getItem('nevira_prefs') can give: null (nothing
\* stored), a text JSON.parse rejects, the JSON null, or an object
Stored(syntax, ac, fs, th, mic) ==
    [syntax |-> syntax, autoConnect |-> ac, fontSize |-> fs, theme |-> th,
     selectedMicId |-> mic]
NothingStored == Stored("missing", Undef, Undef, Undef, Undef)
NoBoot == Stored("none", Undef, Undef, Undef, Undef)

\* JSON.stringify({ autoConnect, fontSize, theme, selectedMicId }): a
\* boolean and three strings
JsonStringify(ac, fs, th, mic) ==
    Stored("object", Val("boolean", IF ac THEN "true" ELSE "false"),
           Val("string", fs), Val("string", th), Val("string", mic))

\* the settings of the first render
Defaults == [autoConnect |-> FALSE, fontSize |-> "16", theme |-> "dark",
             selectedMicId |-> ""]

\* the load effect on the settings cur: JSON.parse(getItem() || '{}');
\* a throw (bad text, or a member read of null) is caught before any
\* setter ran; else each member present (autoConnect) or truthy (the
\* others) is set
Loaded(st, cur) ==
    IF st.syntax \in {"invalid", "null"} THEN cur
    ELSE [autoConnect |-> IF st.autoConnect.t # "undefined"
                          THEN Truthy(st.autoConnect) ELSE cur.autoConnect,
          fontSize |-> IF Truthy(st.fontSize) THEN ToStr(st.fontSize)
                       ELSE cur.fontSize,
          theme |-> IF Truthy(st.theme) THEN st.theme.v ELSE cur.theme,
          selectedMicId |-> IF Truthy(st.selectedMicId)
                            THEN st.selectedMicId.v ELSE cur.selectedMicId]

\* the save effect, keyed on [autoConnect, fontSize, theme, selectedMicId]:
\* it writes the settings when one of them changed
SaveEffect(st, changed, ac, fs, th, mic) ==
    IF changed THEN JsonStringify(ac, fs, th, mic) ELSE st

\* The state a handler leaves (rm, cn, cg, er, ac, rs, lp, at, tr), committed
\* together with what the effects of the following render do to it.  When
\* the auto-connect effect fires it runs connectToRoom up to its first
\* await: setConnecting(true), setError(null), and the token request.
RenderEffects(rm, cn, cg, er, ac, rs, lp, at, tr) ==
    LET fire == /\ AutoConnectDepsChanged(autoConnect, ac, connected, cn)
                /\ AutoConnectGuard(ac, cn, cg)
    IN  /\ fire => tr < MaxRooms
        /\ room' = rm
        /\ connected' = cn
        /\ autoConnect' = ac
        /\ roomState' = CleanupRooms(rs, room, rm)
        /\ loop' = CleanupLoop(lp, room, rm)
        /\ connecting' = IF fire THEN TRUE ELSE cg
        /\ error' = IF fire THEN "null" ELSE er
        /\ att' = IF fire THEN "token" ELSE at
        /\ tokenReqs' = IF fire THEN tr + 1 ELSE tr
        /\ storage' = SaveEffect(storage, autoConnect # ac, ac, fontSize,
                                 theme, selectedMicId)
        /\ bootPrefs' = IF autoConnect # ac THEN NoBoot ELSE bootPrefs
        /\ UNCHANGED <<fontSize, theme, selectedMicId, micDevices, mounted,
                       devPending, micPending>>
        /\ UNCHANGED <<panelVars, serverVars, contactVars, viewVars, composeVars>>

----------------------------------------------------------------------------
(* The contact manager's data (part_000:3-24) *)

\* useState(null) of editing
NoEditing == 0

\* a contact { id, name, email }; the id `c_${ms}` is held as its ms
Contact(id, nm, em) == [id |-> id, name |-> nm, email |-> em]

\* what the key can hold: nothing, a text that is not JSON, or an array
\* saveContacts wrote
NothingStoredContacts == [syntax |-> "absent", items |-> <<>>]
ContactsStringify(list) == [syntax |-> "array", items |-> list]
ContactStores ==
    {NothingStoredContacts, [syntax |-> "invalid", items |-> <<>>],
     ContactsStringify(<<Contact(1, "Ann", "a@x.io")>>)}

----------------------------------------------------------------------------
(* connectToRoom (App.jsx:80-136), one action per suspension point *)

\* what the first render holds of everything but the settings and the
\* connect attempt
InitRest ==
    /\ room = NoRoom
    /\ connected = FALSE
    /\ error = "null"
    /\ participants = {}
    /\ logs = <<>>
    /\ loop = FALSE
    /\ gum = 0
    /\ attRoom = NoRoom
    /\ roomState = [r \in Rooms |-> "none"]
    /\ remote = [r \in Rooms |-> {}]
    /\ discPending = [r \in Rooms |-> 0]
    /\ roomConnects = 0
    /\ attToken = "none"
    /\ micOn = [r \in Rooms |-> FALSE]
    /\ listeners = [r \in Rooms |-> FALSE]
    /\ muted = FALSE
    /\ mutePending = <<>>
    /\ messages = <<>>
    /\ showEmailPopup = FALSE
    /\ srvProc = [state |-> "loading", code |-> 0, key |-> "<undefined>",
                  secret |-> "<undefined>"]
    /\ inputMessage = ""
    /\ sendPending = 0
    /\ emailForm = [to |-> "", subject |-> "", body |-> ""]
    /\ emailSending = FALSE
    /\ emailPending = <<>>
    /\ emailTimers = 0
    /\ showEmailSentPopup = FALSE
    /\ fontSize = Defaults.fontSize
    /\ theme = Defaults.theme
    /\ selectedMicId = Defaults.selectedMicId
    /\ micDevices = <<>>
    /\ devPending = <<>>
    /\ micPending = <<>>
    /\ contacts = <<>>
    /\ editing = NoEditing
    /\ name = ""
    /\ email = ""
    /\ now = 2
    /\ cmMounted = FALSE
    /\ agentSpeaking = FALSE
    /\ agentTimers = <<>>
    /\ speaking = FALSE
    /\ lastSpeakers = {}
    /\ micLevel = 0
    /\ lastWindow = <<>>
    /\ sent = <<>>
    /\ toolPending = <<>>
    /\ lastPayload = NoPayload
    /\ srvReq = [q \in ReqIds |-> NoRequest]
    /\ srvRoom = {}
    /\ srvIssued = {}

\* after mount: the stored preferences (an autoConnect, the rest as the
\* defaults) are loaded, no microphone was listed, and a stored
\* autoConnect = true made the auto-connect effect start a first attempt
Init ==
    /\ autoConnect \in BOOLEAN
    /\ connecting = autoConnect
    /\ att = IF autoConnect THEN "token" ELSE "idle"
    /\ tokenReqs = IF autoConnect THEN 1 ELSE 0
    /\ handler = "mount"
    /\ mounted = TRUE
    /\ storage = JsonStringify(autoConnect, Defaults.fontSize, Defaults.theme,
                               Defaults.selectedMicId)
    /\ bootPrefs = NoBoot
    /\ contactStore = NothingStoredContacts
    /\ InitRest

\* connectToRoom without its setError(null)
ConnectClickKeepsError ==
    /\ ConnectButtonEnabled(connected, connecting)
    /\ tokenReqs < MaxRooms
    /\ handler' = "ConnectClick"
    /\ RenderEffects(room, connected, TRUE, error, autoConnect, roomState,
                     loop, "token", tokenReqs + 1)
    /\ UNCHANGED <<participants, logs, gum, attRoom, remote, discPending,
                   roomConnects, attToken>>
    /\ UNCHANGED <<micOn, listeners>>

\* click on "Connect to Nevira": connectToRoom up to await getToken()
ConnectClick ==
    /\ ConnectButtonEnabled(connected, connecting)
    /\ tokenReqs < MaxRooms
    /\ handler' = "ConnectClick"
    /\ RenderEffects(room, connected, TRUE, "null", autoConnect, roomState,
                     loop, "token", tokenReqs + 1)
    /\ UNCHANGED <<participants, logs, gum, attRoom, remote, discPending,
                   roomConnects, attToken>>
    /\ UNCHANGED <<micOn, listeners>>

\* the Auto-connect checkbox of the settings tab
SetAutoConnect(b) ==
    /\ mounted
    /\ b # autoConnect
    /\ handler' = "SetAutoConnect"
    /\ RenderEffects(room, connected, connecting, error, b, roomState, loop,
                     att, tokenReqs)
    /\ UNCHANGED <<participants, logs, gum, attRoom, remote, discPending,
                   roomConnects, attToken>>
    /\ UNCHANGED <<micOn, listeners>>

\* connectToRoom without its finally block: the catch stores the message
\* and connecting stays as the attempt set it
ConnectFailedNoFinally(msg) ==
    /\ RenderEffects(room, connected, connecting, msg, autoConnect, roomState,
                     loop, "idle", tokenReqs)
    /\ attRoom' = NoRoom
    /\ UNCHANGED <<participants, logs, gum, remote, discPending, roomConnects>>

\* catch and finally of connectToRoom: setError(err.message),
\* setConnecting(false)
ConnectFailed(msg) ==
    /\ RenderEffects(room, connected, FALSE, msg, autoConnect, roomState,
                     loop, "idle", tokenReqs)
    /\ attRoom' = NoRoom
    /\ UNCHANGED <<participants, logs, gum, remote, discPending, roomConnects>>

\* new Room without setupRoomListeners
ListenersNotRegistered(ls, r) == ls

\* setupRoomListeners(newRoom): room.on(...) for every RoomEvent handled
ListenersRegistered(ls, r) == [ls EXCEPT ![r] = TRUE]

\* await getToken(identity) settles with the response status.  Not ok (or
\* no response): getToken throws and the catch of connectToRoom takes it.
\* Ok: new Room, setupRoomListeners(newRoom), and newRoom.connect() is
\* issued.
TokenResolve(status) ==
    /\ att = "token"
    /\ handler' = "TokenResolve"
    /\ attToken' = status
    /\ IF ResponseOk(status)
       THEN /\ NumRooms < MaxRooms
            /\ attRoom' = NumRooms + 1
            /\ listeners' = ListenersRegistered(listeners, NumRooms + 1)
            /\ roomConnects' = roomConnects + 1
            /\ RenderEffects(room, connected, connecting, error, autoConnect,
                             [roomState EXCEPT ![NumRooms + 1] = "connecting"],
                             loop, "connect", tokenReqs)
            /\ UNCHANGED <<participants, logs, gum, remote, discPending>>
       ELSE /\ ConnectFailed(TokenErrorMsg(status))
            /\ UNCHANGED listeners
    /\ UNCHANGED micOn

\* a rejected newRoom.connect() swallowed: the attempt goes on to the
\* microphone with a room that never connected
RoomConnectResolveIgnoringFailure(o) ==
    /\ att = "connect"
    /\ handler' = "RoomConnectResolve"
    /\ RenderEffects(room, connected, connecting, error, autoConnect,
                     [roomState EXCEPT ![attRoom] =
                        IF o = "resolved" THEN "open" ELSE "failed"],
                     loop, "mic", tokenReqs)
    /\ UNCHANGED <<participants, logs, gum, attRoom, remote, discPending,
                   roomConnects, attToken>>
    /\ UNCHANGED <<micOn, listeners>>

\* await newRoom.connect(LIVEKIT_URL, token) settles; resolved,
\* setMicrophoneEnabled(true, ...) is issued; rejected, the catch takes it
RoomConnectResolve(o) ==
    /\ att = "connect"
    /\ handler' = "RoomConnectResolve"
    /\ IF o = "resolved"
       THEN /\ RenderEffects(room, connected, connecting, error, autoConnect,
                             [roomState EXCEPT ![attRoom] = "open"], loop,
                             "mic", tokenReqs)
            /\ UNCHANGED <<participants, logs, gum, attRoom, remote,
                           discPending, roomConnects, attToken>>
       ELSE /\ RenderEffects(room, connected, FALSE, "could not connect",
                             autoConnect,
                             [roomState EXCEPT ![attRoom] = "failed"], loop,
                             "idle", tokenReqs)
            /\ attRoom' = NoRoom
            /\ UNCHANGED <<participants, logs, gum, remote, discPending,
                           roomConnects, attToken>>
    /\ UNCHANGED <<micOn, listeners>>

\* the tail of connectToRoom without its setRoom(newRoom)
ConnectFinishNoSetRoom(an, lp, g) ==
    /\ an = "fallback" => g < MaxGum
    /\ gum' = AnalyserGum(an, g)
    /\ RenderEffects(room, TRUE, FALSE, error, autoConnect, roomState,
                     AnalyserLoop(an, lp), "idle", tokenReqs)
    /\ attRoom' = NoRoom
    /\ UNCHANGED <<participants, logs, remote, discPending, roomConnects,
                   attToken>>

\* the tail of connectToRoom: setupMicLevelAnalyser(newRoom) with outcome
\* an, setRoom(newRoom), setConnected(true), and setConnecting(false) of
\* the finally block; lp and g are the meter's loop and pending fallbacks
\* when the tail starts
ConnectFinish(an, lp, g) ==
    /\ an = "fallback" => g < MaxGum
    /\ gum' = AnalyserGum(an, g)
    /\ RenderEffects(attRoom, TRUE, FALSE, error, autoConnect, roomState,
                     AnalyserLoop(an, lp), "idle", tokenReqs)
    /\ attRoom' = NoRoom
    /\ UNCHANGED <<participants, logs, remote, discPending, roomConnects,
                   attToken>>

\* await setMicrophoneEnabled(true, ...) rejects: the call is not inside
\* the inner try, so the outer catch takes it
MicEnableRejected ==
    /\ att = "mic"
    /\ handler' = "MicEnableRejected"
    /\ attToken' = attToken
    /\ ConnectFailed("microphone error")
    /\ UNCHANGED <<micOn, listeners>>

\* await setMicrophoneEnabled(true, ...) resolves: the microphone is
\* published if the connection is still up.  Publishing the track
\* makes the room emit LocalTrackPublished, whose handler runs
\* setupMicLevelAnalyser (outcome pub); then the audio context is created:
\* suspended, connectToRoom awaits resume(); running, or an exception
\* (caught and logged), it goes straight on to its tail (outcome an, which
\* the suspended branch does not use).
MicEnableResolved(pub, ctx, an) ==
    /\ att = "mic"
    /\ pub = "fallback" => gum < MaxGum
    /\ handler' = "MicEnableResolved"
    /\ micOn' = [micOn EXCEPT ![attRoom] = IsOpen(roomState, attRoom)]
    /\ UNCHANGED listeners
    /\ IF ctx = "suspended"
       THEN /\ an = "throws"
            /\ gum' = AnalyserGum(pub, gum)
            /\ RenderEffects(room, connected, connecting, error, autoConnect,
                             roomState, AnalyserLoop(pub, loop), "resume",
                             tokenReqs)
            /\ UNCHANGED <<participants, logs, attRoom, remote, discPending,
                           roomConnects, attToken>>
       ELSE ConnectFinish(an, AnalyserLoop(pub, loop), AnalyserGum(pub, gum))

\* await audioContext.resume() resolves or rejects: a rejection is caught
\* and logged, so both go on to the tail
AudioResumeResolve(o, an) ==
    /\ att = "resume"
    /\ handler' = IF o = "resolved" THEN "AudioResumeResolved"
                                    ELSE "AudioResumeRejected"
    /\ ConnectFinish(an, loop, gum)
    /\ UNCHANGED <<micOn, listeners>>

----------------------------------------------------------------------------
(* disconnectFromRoom (App.jsx:300-308) *)

\* the synchronous part of disconnectFromRoom called with the stored room
\* rm: if (room), room.disconnect() is issued and awaited
DisconnectIssued(pend, rm) ==
    IF rm # NoRoom THEN [pend EXCEPT ![rm] = @ + 1] ELSE pend

\* disconnect through a reference to the room created last instead of
\* the stored room
DisconnectTeardownLatest(rs, rm) ==
    RoomDisconnectCall(rs, IF rm # NoRoom THEN rm ELSE NumRooms)

DisconnectTeardown(rs, rm) ==
    IF rm # NoRoom THEN RoomDisconnectCall(rs, rm) ELSE rs

\* click on "Disconnect"
DisconnectClick ==
    /\ DisconnectButtonShown(connected)
    /\ room # NoRoom => discPending[room] < MaxPendingDisc
    /\ handler' = "DisconnectClick"
    /\ discPending' = DisconnectIssued(discPending, room)
    /\ RenderEffects(room, connected, connecting, error, autoConnect,
                     DisconnectTeardown(roomState, room), loop, att,
                     tokenReqs)
    /\ UNCHANGED <<participants, logs, gum, attRoom, remote, roomConnects,
                   attToken>>
    /\ UNCHANGED <<micOn, listeners>>

\* disconnectFromRoom without setParticipants([])
DisconnectParticipantsKept(ps) == ps

\* what disconnectFromRoom stores in the participant list after
\* await room.disconnect(): setParticipants([])
DisconnectParticipants(ps) == {}

\* await room.disconnect() of room r resolves (its connection is down):
\* setRoom(null), setConnected(false), setParticipants([]), and the
\* scheduled tick is cancelled
DisconnectResume(r) ==
    /\ discPending[r] > 0
    /\ roomState[r] = "closed"
    /\ handler' = "DisconnectResume"
    /\ discPending' = [discPending EXCEPT ![r] = @ - 1]
    /\ participants' = DisconnectParticipants(participants)
    /\ RenderEffects(NoRoom, FALSE, connecting, error, autoConnect, roomState,
                     FALSE, att, tokenReqs)
    /\ UNCHANGED <<logs, gum, attRoom, remote, roomConnects, attToken>>
    /\ UNCHANGED <<micOn, listeners>>

----------------------------------------------------------------------------
(* Room events: setupRoomListeners (App.jsx:184-288) *)

\* what the RoomEvent.Disconnected handler does to the participant list:
\* it has no setParticipants
DisconnectedParticipants(ps) == ps

\* RoomEvent.Disconnected of room r: the connection of r is down, because
\* the service ended it (r open) or because a teardown this client asked
\* for has completed (r closing).  The handler logs, setConnected(false),
\* setRoom(null) and cancels the scheduled tick.
RoomDisconnected(r) ==
    /\ IsOpen(roomState, r)
    /\ handler' = IF roomState[r] = "open" THEN "RemoteDisconnected"
                                          ELSE "LocalDisconnected"
    /\ logs' = AddLog(logs, "Disconnected from room")
    /\ remote' = [remote EXCEPT ![r] = {}]
    /\ micOn' = [micOn EXCEPT ![r] = FALSE]
    /\ UNCHANGED listeners
    /\ participants' = DisconnectedParticipants(participants)
    /\ RenderEffects(NoRoom, FALSE, connecting, error, autoConnect,
                     [roomState EXCEPT ![r] = "closed"], FALSE, att,
                     tokenReqs)
    /\ UNCHANGED <<gum, attRoom, discPending, roomConnects, attToken>>

\* the identities remote participants can have, and for each the words of
\* interest that String.includes finds in it
EventIds == {"nevira-bot", "agent-7", "user_42"}
Includes(id, word) ==
    CASE id = "nevira_agent" -> word \in {"nevira", "agent"}
      [] id = "nevira-bot" -> word = "nevira"
      [] id = "agent-7" -> word = "agent"
      [] OTHER -> FALSE

\* the test with 'agent' alone
IsAgentByAgentWord(id) == Includes(id, "agent")

\* identity.includes('agent') || identity.includes('nevira')
IsAgent(id) == Includes(id, "agent") \/ Includes(id, "nevira")

\* updateParticipants(room): an entry { identity, isAgent } for each remote
\* participant of the room the listener was registered on
UpdateParticipants(members) ==
    {[identity |-> p, isAgent |-> IsAgent(p)] : p \in members}

\* RoomEvent.ParticipantConnected of room r
ParticipantConnected(r, p) ==
    /\ roomState[r] = "open"
    /\ listeners[r]
    /\ p \notin remote[r]
    /\ handler' = "ParticipantConnected"
    /\ remote' = [remote EXCEPT ![r] = @ \cup {p}]
    /\ logs' = AddLog(logs, "+ " \o p)
    /\ participants' = UpdateParticipants(remote'[r])
    /\ RenderEffects(room, connected, connecting, error, autoConnect,
                     roomState, loop, att, tokenReqs)
    /\ UNCHANGED <<gum, attRoom, discPending, roomConnects, attToken>>
    /\ UNCHANGED <<micOn, listeners>>

\* RoomEvent.ParticipantDisconnected of room r
ParticipantDisconnected(r, p) ==
    /\ roomState[r] = "open"
    /\ listeners[r]
    /\ p \in remote[r]
    /\ handler' = "ParticipantDisconnected"
    /\ remote' = [remote EXCEPT ![r] = @ \ {p}]
    /\ logs' = AddLog(logs, "- " \o p)
    /\ participants' = UpdateParticipants(remote'[r])
    /\ RenderEffects(room, connected, connecting, error, autoConnect,
                     roomState, loop, att, tokenReqs)
    /\ UNCHANGED <<gum, attRoom, discPending, roomConnects, attToken>>
    /\ UNCHANGED <<micOn, listeners>>

\* the getUserMedia fallback of the meter settles: resolved, setupWithStream
\* schedules the tick; rejected, .catch(() => {}) drops it
GumResolve(o) ==
    /\ gum > 0
    /\ handler' = "GumResolve"
    /\ gum' = gum - 1
    /\ RenderEffects(room, connected, connecting, error, autoConnect,
                     roomState, IF o = "resolved" THEN TRUE ELSE loop, att,
                     tokenReqs)
    /\ UNCHANGED <<participants, logs, attRoom, remote, discPending,
                   roomConnects, attToken>>
    /\ UNCHANGED <<micOn, listeners>>

----------------------------------------------------------------------------
(* The data channel: RoomEvent.DataReceived (App.jsx:254-286) *)

\* the connection state: the handlers of the data channel, of the tools
\* panel and of the mute button never write it (micOn apart)
connVars == <<room, connected, connecting, autoConnect, participants, loop,
              gum, att, attRoom, roomState, remote, discPending, tokenReqs,
              roomConnects, attToken, listeners>>

\* JavaScript's undefined
Undefined == "<undefined>"

\* A payload is the text TextDecoder gives for its bytes (raw), the
\* syntactic class JSON.parse finds (an object, null, a scalar, or invalid:
\* not JSON), and for an object its members in order.
Obj(raw, fields) == [raw |-> raw, syntax |-> "object", fields |-> fields]

\* payloads the room may deliver
Payloads ==
    { Obj("{\"type\":\"assistant_message\",\"message\":\"hello\"}",
          << <<"type", "assistant_message">>, <<"message", "hello">> >>),
      Obj("{\"type\":\"assistant_message\",\"text\":\"from text\"}",
          << <<"type", "assistant_message">>, <<"text", "from text">> >>),
      Obj("{\"type\":\"assistant_message\",\"message\":\"\",\"text\":\"shown\",\"images\":[\"a.png\"]}",
          << <<"type", "assistant_message">>, <<"message", "">>,
             <<"text", "shown">>, <<"images", <<"a.png">> >> >>),
      Obj("{\"type\":\"email_popup_trigger\"}",
          << <<"type", "email_popup_trigger">> >>),
      Obj("{\"type\":\"status\",\"text\":\"typing\",\"n\":1}",
          << <<"type", "status">>, <<"text", "typing">>, <<"n", "1">> >>),
      Obj("{\"message\":\"no discriminator\"}",
          << <<"message", "no discriminator">> >>),
      [raw |-> "null", syntax |-> "null", fields |-> <<>>],
      [raw |-> "42", syntax |-> "scalar", fields |-> <<>>],
      [raw |-> "plain words", syntax |-> "invalid", fields |-> <<>>],
      [raw |-> "  ", syntax |-> "invalid", fields |-> <<>>] }

\* JSON.parse(text) throws a SyntaxError
ParseThrows(p) == p.syntax = "invalid"

\* data.type throws a TypeError: data is null
TypeThrows(p) == p.syntax = "null"

HasField(p, k) == \E i \in 1..Len(p.fields) : p.fields[i][1] = k

\* data[k]: the member named k (the last one, if repeated), else undefined
Field(p, k) ==
    IF HasField(p, k)
    THEN LET i == CHOOSE i \in 1..Len(p.fields) :
                      /\ p.fields[i][1] = k
                      /\ \A j \in (i + 1)..Len(p.fields) : p.fields[j][1] # k
         IN  p.fields[i][2]
    ELSE Undefined

\* data.type of a parsed value
DataType(p) == Field(p, "type")

\* data.text where data.message || data.text is written
MessageTextOnly(p) == Field(p, "text")

\* data.message || data.text: an absent or empty message gives the text
MessageText(p) ==
    IF HasField(p, "message") /\ Field(p, "message") # ""
    THEN Field(p, "message")
    ELSE Field(p, "text")

\* data.images || []
MessageImages(p) == IF HasField(p, "images") THEN Field(p, "images") ELSE <<>>

\* texts that text.trim() empties
BlankTexts == {"", " ", "  "}

\* text.trim()
Trim(t) == IF t \in BlankTexts THEN "" ELSE t

\* an entry of the chat (id and timestamp left out)
ChatEntry(sender, text, images) ==
    [sender |-> sender, text |-> text, images |-> images]

\* the chat after the handler ran on payload p: the try appends for an
\* assistant_message only; the catch (JSON.parse or data.type threw)
\* appends the text if it is not blank
DataMessages(p, ms) ==
    IF ParseThrows(p) \/ TypeThrows(p)
    THEN IF p.raw # "" /\ Trim(p.raw) # ""
         THEN Append(ms, ChatEntry("assistant", p.raw, <<>>))
         ELSE ms
    ELSE IF DataType(p) = "assistant_message"
         THEN Append(ms, ChatEntry("assistant", MessageText(p),
                                   MessageImages(p)))
         ELSE ms

\* the handler took the email_popup_trigger branch
IsPopupTrigger(p) ==
    ~ParseThrows(p) /\ ~TypeThrows(p) /\ DataType(p) = "email_popup_trigger"

\* RoomEvent.DataReceived of room r with payload p
DataReceived(r, p) ==
    /\ roomState[r] = "open"
    /\ listeners[r]
    /\ handler' = "DataReceived"
    /\ lastPayload' = p
    /\ messages' = DataMessages(p, messages)
    /\ showEmailPopup' = IF IsPopupTrigger(p) THEN TRUE ELSE showEmailPopup
    /\ logs' = IF IsPopupTrigger(p)
               THEN AddLog(logs, "Email popup opened via voice command")
               ELSE logs
    /\ UNCHANGED <<connVars, serverVars, contactVars, viewVars, prefVars, composeVars, micOn, error, muted, mutePending, sent,
                   toolPending>>

----------------------------------------------------------------------------
(* The tools panel: triggerTool (App.jsx:367-384) *)

\* const tools (App.jsx:39-50): label and canned prompt of each key
Tools ==
    [get_weather |-> [label |-> "Weather",
                      prompt |-> "What is the weather in London?"],
     search_web |-> [label |-> "Web Search",
                     prompt |-> "Search the web for latest AI news"],
     send_email |-> [label |-> "Send Email",
                     prompt |-> "Send an email to hr saying I will be late by 15 minutes"],
     open_application |-> [label |-> "Open App", prompt |-> "Open calculator"],
     close_application |-> [label |-> "Close App",
                            prompt |-> "Close calculator"],
     open_website |-> [label |-> "Open Website", prompt |-> "Open YouTube"],
     search_google |-> [label |-> "Google Search",
                        prompt |-> "Search Google for LiveKit agents"],
     get_system_status |-> [label |-> "System Status",
                            prompt |-> "What is my system status?"],
     get_time_and_date |-> [label |-> "Time & Date",
                            prompt |-> "What is the time and date?"],
     take_screenshot |-> [label |-> "Screenshot",
                          prompt |-> "Take a screenshot"]]

ToolKeys == DOMAIN Tools

\* the key triggerTool treats apart
EmailTool == "send_email"

\* the tool cards clicked in a run
ToolsTried == {"send_email", "get_weather", "open_application"}

\* JSON.stringify({ type, text, ts: Date.now() }) and TextEncoder.encode:
\* the members in the order written, the text with them quoted
Stringify(type, text) ==
    Obj("{\"type\":\"" \o type \o "\",\"text\":\"" \o text \o "\",\"ts\":now}",
        << <<"type", type>>, <<"text", text>>, <<"ts", "now">> >>)

\* a publishData(data, reliable) call on the local participant of room rm
Published(rm, data, reliable) ==
    [room |-> rm, data |-> data, reliable |-> reliable]

\* triggerTool without the send_email branch: every tool is published
ToolSentEmailToo(key, cn, rm, snt) ==
    IF ~cn \/ rm = NoRoom THEN snt
    ELSE Append(snt, Published(rm, Stringify("user_command",
                                             Tools[key].prompt), TRUE))

\* triggerTool without its connected check
ToolSentUnguarded(key, cn, rm, snt) ==
    IF key = EmailTool THEN snt
    ELSE Append(snt, Published(rm, Stringify("user_command",
                                             Tools[key].prompt), TRUE))

\* the publishData calls after triggerTool(t) ran with t.key = key in a
\* render with connected = cn and room = rm
ToolSent(key, cn, rm, snt) ==
    IF ~cn \/ rm = NoRoom THEN snt
    ELSE IF key = EmailTool THEN snt
    ELSE Append(snt, Published(rm, Stringify("user_command",
                                             Tools[key].prompt), TRUE))

\* showEmailPopup after triggerTool(t)
ToolPopup(key, cn, rm, sp) ==
    IF cn /\ rm # NoRoom /\ key = EmailTool THEN TRUE ELSE sp

\* the triggerTool calls suspended at await publishData after triggerTool(t)
ToolAwaited(key, cn, rm, tp) ==
    IF cn /\ rm # NoRoom /\ key # EmailTool THEN Append(tp, key) ELSE tp

\* a tool card is disabled while !connected
ToolButtonEnabled(cn) == cn

\* name of the run of triggerTool on the tool key
ToolHandler(key) == "TriggerTool " \o key

\* click on the card of tool key: triggerTool up to await publishData
TriggerTool(key) ==
    /\ ToolButtonEnabled(connected)
    /\ handler' = ToolHandler(key)
    /\ sent' = ToolSent(key, connected, room, sent)
    /\ showEmailPopup' = ToolPopup(key, connected, room, showEmailPopup)
    /\ toolPending' = ToolAwaited(key, connected, room, toolPending)
    /\ UNCHANGED <<connVars, serverVars, contactVars, viewVars, prefVars, composeVars, micOn, error, logs, muted, mutePending, messages,
                   lastPayload>>

\* await publishData settles for the oldest suspended triggerTool:
\* resolved, the log gets "Triggered tool: <label>"; rejected, the catch
\* sets the error
ToolPublishSettle(o) ==
    /\ toolPending # <<>>
    /\ handler' = IF o = "resolved" THEN "ToolPublishResolved"
                                    ELSE "ToolPublishRejected"
    /\ toolPending' = Tail(toolPending)
    /\ logs' = IF o = "resolved"
               THEN AddLog(logs, "Triggered tool: "
                                  \o Tools[Head(toolPending)].label)
               ELSE logs
    /\ error' = IF o = "resolved" THEN error
                ELSE "Failed to send command to assistant. Please speak the request."
    /\ UNCHANGED <<connVars, serverVars, contactVars, viewVars, prefVars, composeVars, micOn, muted, mutePending, messages,
                   showEmailPopup, sent, lastPayload>>

----------------------------------------------------------------------------
(* The mute button: toggleMute (App.jsx:311-317) *)

\* the toggleMute calls suspended at await setMicrophoneEnabled after
\* toggleMute ran in a render with room = rm and muted = mu
ToggleMuteIssued(pend, rm, mu) ==
    IF rm # NoRoom THEN Append(pend, [room |-> rm, newMuted |-> ~mu])
    ELSE pend

\* the Mute button is rendered in the connected section only
MuteButtonShown(cn) == cn

\* click on Mute / Unmute: toggleMute up to await setMicrophoneEnabled
ToggleMuteClick ==
    /\ MuteButtonShown(connected)
    /\ handler' = "ToggleMuteClick"
    /\ mutePending' = ToggleMuteIssued(mutePending, room, muted)
    /\ UNCHANGED <<connVars, serverVars, contactVars, viewVars, prefVars, composeVars, micOn, error, logs, muted, messages,
                   showEmailPopup, sent, toolPending, lastPayload>>

\* await room.localParticipant.setMicrophoneEnabled(!newMuted) settles for
\* the oldest suspended toggleMute: resolved, the microphone is published
\* or not as asked (on a live connection) and setMuted(newMuted); rejected,
\* nothing catches it and nothing is set
ToggleMuteSettle(o) ==
    /\ mutePending # <<>>
    /\ handler' = IF o = "resolved" THEN "ToggleMuteResolved"
                                    ELSE "ToggleMuteRejected"
    /\ mutePending' = Tail(mutePending)
    /\ LET c == Head(mutePending)
       IN  IF o = "resolved"
           THEN /\ micOn' = [micOn EXCEPT ![c.room] =
                                ~c.newMuted /\ IsOpen(roomState, c.room)]
                /\ muted' = c.newMuted
           ELSE UNCHANGED <<micOn, muted>>
    /\ UNCHANGED <<connVars, serverVars, contactVars, viewVars, prefVars, composeVars, error, logs, messages, showEmailPopup, sent,
                   toolPending, lastPayload>>

----------------------------------------------------------------------------
(* Mount, the device list and the settings tab (App.jsx:330-364, 796-816) *)

\* what storage can hold when the page opens: nothing, a text that is not
\* JSON, null, the settings a previous run wrote, the font size as a
\* number, a theme alone
FontSizes == {"16", "18"}
Themes == {"dark", "light"}
StoredMics == {"", "mic2"}
WrittenPrefs ==
    {JsonStringify(ac, fs, th, mic) :
        ac \in BOOLEAN, fs \in FontSizes, th \in Themes, mic \in StoredMics}
StoredSet ==
    {NothingStored, Stored("invalid", Undef, Undef, Undef, Undef),
     Stored("null", Undef, Undef, Undef, Undef),
     Stored("object", Val("boolean", "true"), Val("number", "18"),
            Val("string", "light"), Val("string", "")),
     Stored("object", Undef, Undef, Val("string", "light"), Undef)}
        \cup WrittenPrefs

\* before mount: the first render has the defaults and storage holds
\* what it holds
InitPrefs ==
    /\ storage \in StoredSet
    /\ autoConnect = Defaults.autoConnect
    /\ connecting = FALSE
    /\ att = "idle"
    /\ tokenReqs = 0
    /\ handler = "render"
    /\ mounted = FALSE
    /\ bootPrefs = NoBoot
    /\ contactStore = NothingStoredContacts
    /\ InitRest

\* The effects of the first commit and the render they cause.  The load
\* effect reads storage and sets what it finds; the save effect writes the
\* defaults of the first render; the mount effect calls refreshDevices,
\* which awaits the device list.  The render with the loaded settings runs
\* the save effect again if a setting changed (either way storage ends as
\* the settings stringified), and the auto-connect effect.
Mount ==
    /\ ~mounted
    /\ handler' = "mount"
    /\ mounted' = TRUE
    /\ bootPrefs' = storage
    /\ LET p == Loaded(storage, Defaults)
           fire == /\ AutoConnectDepsChanged(autoConnect, p.autoConnect,
                                             connected, connected)
                   /\ AutoConnectGuard(p.autoConnect, connected, connecting)
       IN  /\ autoConnect' = p.autoConnect
           /\ fontSize' = p.fontSize
           /\ theme' = p.theme
           /\ selectedMicId' = p.selectedMicId
           /\ storage' = SaveEffect(
                  SaveEffect(storage, TRUE, autoConnect, fontSize, theme,
                             selectedMicId),
                  p # Defaults, p.autoConnect, p.fontSize, p.theme,
                  p.selectedMicId)
           /\ connecting' = fire
           /\ error' = "null"
           /\ att' = IF fire THEN "token" ELSE "idle"
           /\ tokenReqs' = IF fire THEN 1 ELSE 0
    /\ devPending' = Append(devPending, selectedMicId)
    /\ UNCHANGED <<room, connected, participants, logs, loop, gum, attRoom,
                   roomState, remote, discPending, roomConnects, attToken,
                   micOn, listeners, micDevices, micPending, viewVars,
                   panelVars, composeVars, serverVars, contactVars>>

\* the device lists enumerateDevices can give
DeviceLists == {<<>>, <<"mic1", "mic2">>}

\* if (!selectedMicId && mics[0]) setSelectedMicId(mics[0].deviceId), with
\* the selectedMicId of the render that called refreshDevices
RefreshedMic(closureMic, current, mics) ==
    IF closureMic = "" /\ mics # <<>> THEN mics[1] ELSE current

\* the awaits of the oldest refreshDevices settle: rejected (no
\* permission), the catch ignores it; resolved with the list mics,
\* setMicDevices(mics) and the default microphone; then the save effect
DevicesResolve(o, mics) ==
    /\ devPending # <<>>
    /\ handler' = "DevicesResolve"
    /\ devPending' = Tail(devPending)
    /\ IF o = "resolved"
       THEN /\ micDevices' = mics
            /\ selectedMicId' = RefreshedMic(Head(devPending), selectedMicId,
                                             mics)
       ELSE /\ mics = <<>>
            /\ UNCHANGED <<micDevices, selectedMicId>>
    /\ storage' = SaveEffect(storage, selectedMicId' # selectedMicId,
                             autoConnect, fontSize, theme, selectedMicId')
    /\ UNCHANGED <<connVars, serverVars, contactVars, viewVars, panelVars, composeVars,
                   micOn, error, logs, fontSize, theme, mounted, bootPrefs,
                   micPending>>

\* the theme select of the settings tab, then the save effect
SetTheme(t) ==
    /\ mounted
    /\ t # theme
    /\ handler' = "SetTheme"
    /\ theme' = t
    /\ storage' = SaveEffect(storage, TRUE, autoConnect, fontSize, t,
                             selectedMicId)
    /\ bootPrefs' = NoBoot
    /\ UNCHANGED <<connVars, serverVars, contactVars, viewVars, panelVars, composeVars,
                   micOn, error, logs, fontSize, selectedMicId, micDevices,
                   mounted, devPending, micPending>>

\* the font size input of the settings tab, then the save effect
SetFontSize(v) ==
    /\ mounted
    /\ v # fontSize
    /\ handler' = "SetFontSize"
    /\ fontSize' = v
    /\ storage' = SaveEffect(storage, TRUE, autoConnect, v, theme,
                             selectedMicId)
    /\ bootPrefs' = NoBoot
    /\ UNCHANGED <<connVars, serverVars, contactVars, viewVars, panelVars, composeVars,
                   micOn, error, logs, theme, selectedMicId, micDevices,
                   mounted, devPending, micPending>>

\* the microphone select of the settings tab (its options are the listed
\* devices), then the save effect
SetSelectedMicId(id) ==
    /\ mounted
    /\ \E i \in 1..Len(micDevices) : micDevices[i] = id
    /\ id # selectedMicId
    /\ handler' = "SetSelectedMicId"
    /\ selectedMicId' = id
    /\ storage' = SaveEffect(storage, TRUE, autoConnect, fontSize, theme, id)
    /\ bootPrefs' = NoBoot
    /\ UNCHANGED <<connVars, serverVars, contactVars, viewVars, panelVars, composeVars,
                   micOn, error, logs, fontSize, theme, micDevices, mounted,
                   devPending, micPending>>

\* the setMicrophoneEnabled calls suspended after the microphone select of
\* the Voice tab changed in a render with room = rm: if (room), one more
VoiceMicIssued(pend, rm) == IF rm # NoRoom THEN Append(pend, rm) ELSE pend

\* the microphone select of the Voice tab (its options are the listed
\* devices): setSelectedMicId(id), the save effect, and with a stored room
\* setMicrophoneEnabled(true, { deviceId: id }) is issued and awaited
VoiceMicChange(id) ==
    /\ mounted
    /\ \E i \in 1..Len(micDevices) : micDevices[i] = id
    /\ id # selectedMicId
    /\ handler' = "VoiceMicChange"
    /\ selectedMicId' = id
    /\ storage' = SaveEffect(storage, TRUE, autoConnect, fontSize, theme, id)
    /\ bootPrefs' = NoBoot
    /\ micPending' = VoiceMicIssued(micPending, room)
    /\ UNCHANGED <<connVars, serverVars, contactVars, viewVars, panelVars, composeVars,
                   micOn, error, logs, fontSize, theme, micDevices, mounted,
                   devPending>>

\* await setMicrophoneEnabled(true, { deviceId: id }) of the oldest change
\* settles: resolved, the microphone is published (on a live connection)
\* and setupMicLevelAnalyser(room) runs with outcome an; rejected, nothing
\* catches it and nothing is set.  muted is not written either way.
VoiceMicSettle(o, an) ==
    /\ micPending # <<>>
    /\ handler' = IF o = "resolved" THEN "VoiceMicResolved"
                                    ELSE "VoiceMicRejected"
    /\ micPending' = Tail(micPending)
    /\ IF o = "resolved"
       THEN /\ an = "fallback" => gum < MaxGum
            /\ micOn' = [micOn EXCEPT ![Head(micPending)] =
                             IsOpen(roomState, Head(micPending))]
            /\ gum' = AnalyserGum(an, gum)
            /\ loop' = AnalyserLoop(an, loop)
       ELSE /\ an = "throws"
            /\ UNCHANGED <<micOn, gum, loop>>
    /\ UNCHANGED <<room, connected, connecting, autoConnect, participants,
                   att, attRoom, roomState, remote, discPending, tokenReqs,
                   roomConnects, attToken, listeners, serverVars, contactVars, viewVars,
                   panelVars, composeVars, error, logs, storage, fontSize,
                   theme, selectedMicId, micDevices, mounted, devPending,
                   bootPrefs>>

----------------------------------------------------------------------------
(* The indicators: TrackSubscribed and ActiveSpeakersChanged
   (App.jsx:186-207, 233-236) *)

TrackKinds == {"audio", "video"}

\* a track of kind from participant p of room r is subscribed: the log
\* entry; for an audio track of an agent, setAgentSpeaking(true) and a
\* timer of 3000 ms that nothing cancels
TrackSubscribed(r, kind, p) ==
    /\ roomState[r] = "open"
    /\ listeners[r]
    /\ handler' = "TrackSubscribed"
    /\ logs' = AddLog(logs, "Subscribed " \o kind \o " from " \o p)
    /\ IF kind = "audio" /\ IsAgent(p)
       THEN /\ agentSpeaking' = TRUE
            /\ agentTimers' = Append(agentTimers, SpeakWindow)
       ELSE UNCHANGED <<agentSpeaking, agentTimers>>
    /\ UNCHANGED <<connVars, serverVars, contactVars, panelVars, composeVars, prefVars,
                   micOn, error, speaking, lastSpeakers, micLevel,
                   lastWindow>>

\* a second passes with no timer due
TimePasses ==
    /\ agentTimers # <<>>
    /\ \A i \in 1..Len(agentTimers) : agentTimers[i] > 0
    /\ handler' = "TimePasses"
    /\ agentTimers' = [i \in 1..Len(agentTimers) |-> agentTimers[i] - 1]
    /\ UNCHANGED <<connVars, serverVars, contactVars, panelVars, composeVars, prefVars,
                   micOn, error, logs, agentSpeaking, speaking, lastSpeakers,
                   micLevel, lastWindow>>

\* the oldest timer is due: () => setAgentSpeaking(false)
AgentTimerFires ==
    /\ agentTimers # <<>>
    /\ Head(agentTimers) = 0
    /\ handler' = "AgentTimerFires"
    /\ agentTimers' = Tail(agentTimers)
    /\ agentSpeaking' = FALSE
    /\ UNCHANGED <<connVars, serverVars, contactVars, panelVars, composeVars, prefVars,
                   micOn, error, logs, speaking, lastSpeakers, micLevel,
                   lastWindow>>

\* the identity of the local participant, and a speaker as the room
\* reports it
LocalIdentity == "user_1234"
Speaker(id) == [identity |-> id, isLocal |-> id = LocalIdentity]
SpeakerSets == {{Speaker(id) : id \in ids} :
                    ids \in SUBSET {LocalIdentity, "nevira_agent"}}

\* the flag set whenever anybody speaks
AnybodySpeaking(speakers) == speakers # {}

\* speakers.some(s => s.isLocal)
IsLocalSpeaking(speakers) == \E s \in speakers : s.isLocal

\* the room reports its active speakers: setSpeaking(isLocalSpeaking)
ActiveSpeakersChanged(r, speakers) ==
    /\ roomState[r] = "open"
    /\ listeners[r]
    /\ handler' = "ActiveSpeakersChanged"
    /\ lastSpeakers' = speakers
    /\ speaking' = IsLocalSpeaking(speakers)
    /\ UNCHANGED <<connVars, serverVars, contactVars, panelVars, composeVars, prefVars,
                   micOn, error, logs, agentSpeaking, agentTimers, micLevel,
                   lastWindow>>

----------------------------------------------------------------------------
(* The chat input: sendMessage (App.jsx:433-454) *)

\* what the user can have typed: nothing, blanks, or a message
Inputs == {"", "  ", "hello"}

\* the input is disabled while !connected; onChange stores the text
SetInputMessage(t) ==
    /\ connected
    /\ t # inputMessage
    /\ handler' = "SetInputMessage"
    /\ inputMessage' = t
    /\ UNCHANGED <<connVars, serverVars, contactVars, viewVars, prefVars, panelVars, micOn, error,
                   logs, sendPending, emailForm, emailSending, emailPending,
                   emailTimers, showEmailSentPopup>>

\* if (!inputMessage.trim() || !connected || !room) return
SendGuard(im, cn, rm) == Trim(im) # "" /\ cn /\ rm # NoRoom

\* sendMessage with the entry put in front of the chat
SendMessagesPrepended(im, cn, rm, ms) ==
    IF SendGuard(im, cn, rm) THEN <<ChatEntry("user", im, <<>>)>> \o ms ELSE ms

\* setMessages((prev) => [...prev, userMessage])
SendMessages(im, cn, rm, ms) ==
    IF SendGuard(im, cn, rm) THEN Append(ms, ChatEntry("user", im, <<>>)) ELSE ms

\* the guard testing inputMessage without trim(): blanks are published
SendSentUntrimmed(im, cn, rm, snt) ==
    IF im # "" /\ cn /\ rm # NoRoom
    THEN Append(snt, Published(rm, Stringify("user_command", im), TRUE))
    ELSE snt

\* the publishData calls after sendMessage ran
SendSent(im, cn, rm, snt) ==
    IF SendGuard(im, cn, rm)
    THEN Append(snt, Published(rm, Stringify("user_command", im), TRUE))
    ELSE snt

\* Enter in the input (or the Send button): sendMessage up to await
\* publishData
SendMessage ==
    /\ connected
    /\ handler' = "sendMessage"
    /\ messages' = SendMessages(inputMessage, connected, room, messages)
    /\ sent' = SendSent(inputMessage, connected, room, sent)
    /\ inputMessage' = IF SendGuard(inputMessage, connected, room) THEN ""
                       ELSE inputMessage
    /\ sendPending' = IF SendGuard(inputMessage, connected, room)
                      THEN sendPending + 1 ELSE sendPending
    /\ UNCHANGED <<connVars, serverVars, contactVars, viewVars, prefVars, micOn, error, logs, muted,
                   mutePending, showEmailPopup, toolPending, lastPayload,
                   emailForm, emailSending, emailPending, emailTimers,
                   showEmailSentPopup>>

\* await publishData of a suspended sendMessage settles: rejected, the
\* catch sets the error
SendPublishSettle(o) ==
    /\ sendPending > 0
    /\ handler' = IF o = "resolved" THEN "SendPublishResolved"
                                    ELSE "SendPublishRejected"
    /\ sendPending' = sendPending - 1
    /\ error' = IF o = "resolved" THEN error
                ELSE "Failed to send message. Please speak the request."
    /\ UNCHANGED <<connVars, serverVars, contactVars, viewVars, prefVars, panelVars, micOn, logs,
                   inputMessage, emailForm, emailSending, emailPending,
                   emailTimers, showEmailSentPopup>>

----------------------------------------------------------------------------
(* The email form: handleEmailSubmit (App.jsx:387-430) *)

NoEmail == [to |-> "", subject |-> "", body |-> ""]

\* what the form can hold: nothing, a recipient only, all three fields
EmailForms ==
    {NoEmail, [to |-> "a@b.c", subject |-> "", body |-> ""],
     [to |-> "a@b.c", subject |-> "Hi", body |-> "See you"]}

\* !emailForm.to || !emailForm.subject || !emailForm.body
FormIncomplete(f) == f.to = "" \/ f.subject = "" \/ f.body = ""

\* the command handleEmailSubmit sends for the form
EmailCommand(f) ==
    "Send an email to " \o f.to \o " with subject \"" \o f.subject
        \o "\" and message \"" \o f.body \o "\""

\* onChange of a field of the popup
SetEmailForm(f) ==
    /\ showEmailPopup
    /\ f # emailForm
    /\ handler' = "SetEmailForm"
    /\ emailForm' = f
    /\ UNCHANGED <<connVars, serverVars, contactVars, viewVars, prefVars, panelVars, micOn, error,
                   logs, inputMessage, sendPending, emailSending, emailPending,
                   emailTimers, showEmailSentPopup>>

\* click on Send in the popup (disabled while emailSending): the two
\* checks, each with its error, then setEmailSending(true) and await
\* publishData
HandleEmailSubmit ==
    /\ showEmailPopup
    /\ ~emailSending
    /\ handler' = "handleEmailSubmit"
    /\ IF FormIncomplete(emailForm)
       THEN /\ error' = "Please fill in all email fields"
            /\ UNCHANGED <<sent, emailSending, emailPending>>
       ELSE IF ~connected \/ room = NoRoom
       THEN /\ error' = "Not connected to assistant"
            /\ UNCHANGED <<sent, emailSending, emailPending>>
       ELSE /\ emailSending' = TRUE
            /\ sent' = Append(sent, Published(room,
                            Stringify("user_command", EmailCommand(emailForm)),
                            TRUE))
            /\ emailPending' = Append(emailPending, emailForm)
            /\ error' = error
    /\ UNCHANGED <<connVars, serverVars, contactVars, viewVars, prefVars, micOn, logs, muted,
                   mutePending, messages, showEmailPopup, toolPending,
                   lastPayload, inputMessage, sendPending, emailForm,
                   emailTimers, showEmailSentPopup>>

\* await publishData of handleEmailSubmit settles: resolved, the log entry,
\* the popup closes, the form is reset and the 1000 ms timer starts;
\* rejected, the catch sets the error and setEmailSending(false)
EmailPublishSettle(o) ==
    /\ emailPending # <<>>
    /\ handler' = IF o = "resolved" THEN "EmailPublishResolved"
                                    ELSE "EmailPublishRejected"
    /\ emailPending' = Tail(emailPending)
    /\ IF o = "resolved"
       THEN /\ logs' = AddLog(logs, "Sending email to " \o Head(emailPending).to)
            /\ showEmailPopup' = FALSE
            /\ emailForm' = NoEmail
            /\ emailTimers' = emailTimers + 1
            /\ UNCHANGED <<error, emailSending>>
       ELSE /\ error' = "Failed to send email command to assistant"
            /\ emailSending' = FALSE
            /\ UNCHANGED <<logs, showEmailPopup, emailForm, emailTimers>>
    /\ UNCHANGED <<connVars, serverVars, contactVars, viewVars, prefVars, micOn, muted, mutePending,
                   messages, sent, toolPending, lastPayload, inputMessage,
                   sendPending, showEmailSentPopup>>

\* the timer of handleEmailSubmit fires: setShowEmailSentPopup(true),
\* setEmailSending(false)
EmailTimerFires ==
    /\ emailTimers > 0
    /\ handler' = "EmailTimerFires"
    /\ emailTimers' = emailTimers - 1
    /\ showEmailSentPopup' = TRUE
    /\ emailSending' = FALSE
    /\ UNCHANGED <<connVars, serverVars, contactVars, viewVars, prefVars, panelVars, micOn, error,
                   logs, inputMessage, sendPending, emailForm, emailPending>>

----------------------------------------------------------------------------
(* The meter's sampling loop: tick (App.jsx:157-167) *)

\* a scheduled tick runs on the window w the analyser hands it: it sets the
\* level and schedules the next tick
Tick(w) ==
    /\ loop
    /\ handler' = "tick"
    /\ lastWindow' = w
    /\ micLevel' = Level(w)
    /\ UNCHANGED <<connVars, serverVars, contactVars, panelVars, composeVars, prefVars,
                   indicatorVars, micOn, error, logs>>

----------------------------------------------------------------------------

Next ==
    \/ ConnectClick
    \/ \E b \in BOOLEAN : SetAutoConnect(b)
    \/ \E status \in TokenOutcomes : TokenResolve(status)
    \/ \E o \in Outcomes : RoomConnectResolve(o)
    \/ MicEnableRejected
    \/ \E pub \in AnalyserOutcomes, ctx \in CtxStates, an \in AnalyserOutcomes :
            MicEnableResolved(pub, ctx, an)
    \/ \E o \in Outcomes, an \in AnalyserOutcomes : AudioResumeResolve(o, an)
    \/ DisconnectClick
    \/ \E r \in Rooms : DisconnectResume(r)
    \/ \E r \in Rooms : RoomDisconnected(r)
    \/ \E r \in Rooms, p \in Ids :
            Len(logs) < MaxPartEvents /\ ParticipantConnected(r, p)
    \/ \E r \in Rooms, p \in Ids :
            Len(logs) < MaxPartEvents /\ ParticipantDisconnected(r, p)
    \/ \E o \in Outcomes : GumResolve(o)

Spec == Init /\ [][Next]_vars

\* an awaited step of the connect attempt in flight settles
AttemptStep ==
    \/ \E status \in TokenOutcomes : TokenResolve(status)
    \/ \E o \in Outcomes : RoomConnectResolve(o)
    \/ MicEnableRejected
    \/ \E pub \in AnalyserOutcomes, ctx \in CtxStates, an \in AnalyserOutcomes :
            MicEnableResolved(pub, ctx, an)
    \/ \E o \in Outcomes, an \in AnalyserOutcomes : AudioResumeResolve(o, an)

\* the session controller when every promise connectToRoom awaits (the
\* token fetch, newRoom.connect, setMicrophoneEnabled, audioContext.resume)
\* eventually settles
SpecLive == Spec /\ WF_vars(AttemptStep)

----------------------------------------------------------------------------
(* The chat, the tools panel, the mute button and the log on a session
   whose connect attempts succeed *)

\* a connect attempt every awaited step of which succeeds, the track
\* published and the audio context running
ConnectPath ==
    \/ ConnectClick
    \/ TokenResolve("200")
    \/ RoomConnectResolve("resolved")
    \/ MicEnableResolved("track", "running", "track")

NextChat ==
    \/ ConnectPath
    \/ \E r \in Rooms : RoomDisconnected(r)
    \/ \E r \in Rooms, p \in Payloads :
            /\ Len(messages) < MaxMsgs
            /\ Len(logs) < MaxChatLogs
            /\ DataReceived(r, p)

SpecChat == Init /\ [][NextChat]_vars

NextTools ==
    \/ ConnectPath
    \/ \E r \in Rooms : RoomDisconnected(r)
    \/ \E key \in ToolsTried : Len(sent) < MaxSent /\ TriggerTool(key)
    \/ \E o \in Outcomes : ToolPublishSettle(o)

SpecTools == Init /\ [][NextTools]_vars

NextMute ==
    \/ ConnectPath
    \/ DisconnectClick
    \/ \E r \in Rooms : DisconnectResume(r)
    \/ \E r \in Rooms : RoomDisconnected(r)
    \/ Len(mutePending) < MaxPendingMute /\ ToggleMuteClick
    \/ \E o \in Outcomes : ToggleMuteSettle(o)

SpecMute == Init /\ [][NextMute]_vars

NextLog ==
    \/ ConnectPath
    \/ \E r \in Rooms : RoomDisconnected(r)
    \/ \E r \in Rooms, p \in Ids : ParticipantConnected(r, p)
    \/ \E r \in Rooms, p \in Ids : ParticipantDisconnected(r, p)

SpecLog == Init /\ [][NextLog]_vars

----------------------------------------------------------------------------
\* the meter while a connect attempt awaits audioContext.resume(): the
\* track is published, or the meter falls back to getUserMedia, and the
\* ticks run
NextMeter ==
    \/ ConnectClick
    \/ TokenResolve("200")
    \/ RoomConnectResolve("resolved")
    \/ \E pub \in {"track", "fallback"} :
            MicEnableResolved(pub, "suspended", "throws")
    \/ GumResolve("resolved")
    \/ \E w \in Windows : Tick(w)

SpecMeter == Init /\ [][NextMeter]_vars

----------------------------------------------------------------------------
\* the actions that can set the error: connect attempts that fail at any
\* step, tools, chat messages and emails whose publishData fails, and the
\* checks of the email form
NextError ==
    \/ ConnectClick
    \/ \E status \in {"200", "403"} : TokenResolve(status)
    \/ \E o \in Outcomes : RoomConnectResolve(o)
    \/ MicEnableRejected
    \/ MicEnableResolved("track", "running", "track")
    \/ \E r \in Rooms : RoomDisconnected(r)
    \/ \E key \in {EmailTool, "get_weather"} :
            Len(sent) < MaxErrSent /\ TriggerTool(key)
    \/ \E o \in Outcomes : ToolPublishSettle(o)
    \/ SetInputMessage("hello")
    \/ Len(sent) < MaxErrSent /\ Len(messages) < MaxMsgs /\ SendMessage
    \/ \E o \in Outcomes : SendPublishSettle(o)
    \/ SetEmailForm([to |-> "a@b.c", subject |-> "Hi", body |-> "See you"])
    \/ Len(sent) < MaxErrSent /\ HandleEmailSubmit
    \/ \E o \in Outcomes : EmailPublishSettle(o)
    \/ EmailTimerFires

SpecError == Init /\ [][NextError]_vars

----------------------------------------------------------------------------
\* the page opens on what storage holds, the device list arrives, and the
\* user changes settings
NextPrefs ==
    \/ Mount
    \/ \E o \in Outcomes, mics \in DeviceLists : DevicesResolve(o, mics)
    \/ \E b \in BOOLEAN : SetAutoConnect(b)
    \/ \E t \in Themes : SetTheme(t)
    \/ \E v \in FontSizes : SetFontSize(v)
    \/ \E id \in {"mic1", "mic2"} : SetSelectedMicId(id)

SpecPrefs == InitPrefs /\ [][NextPrefs]_vars

----------------------------------------------------------------------------
\* the indicators on a connected session
NextIndicators ==
    \/ ConnectPath
    \/ \E r \in Rooms : RoomDisconnected(r)
    \/ \E r \in Rooms, kind \in TrackKinds, p \in EventIds :
            Len(logs) < MaxSubs /\ TrackSubscribed(r, kind, p)
    \/ TimePasses
    \/ AgentTimerFires
    \/ \E r \in Rooms, speakers \in SpeakerSets :
            ActiveSpeakersChanged(r, speakers)

SpecIndicators == Init /\ [][NextIndicators]_vars

----------------------------------------------------------------------------
\* the participant list on a connected session
NextMembers ==
    \/ ConnectPath
    \/ \E r \in Rooms : RoomDisconnected(r)
    \/ \E r \in Rooms, p \in EventIds :
            Len(logs) < MaxMemberEvents /\ ParticipantConnected(r, p)
    \/ \E r \in Rooms, p \in EventIds :
            Len(logs) < MaxMemberEvents /\ ParticipantDisconnected(r, p)

SpecMembers == Init /\ [][NextMembers]_vars

----------------------------------------------------------------------------
\* the chat on a connected session: payloads arrive and the user sends
\* messages
NextSend ==
    \/ ConnectPath
    \/ \E r \in Rooms : RoomDisconnected(r)
    \/ \E r \in Rooms, p \in Payloads :
            /\ Len(messages) < MaxMsgs
            /\ Len(logs) < MaxChatLogs
            /\ DataReceived(r, p)
    \/ \E t \in Inputs : SetInputMessage(t)
    \/ Len(messages) < MaxMsgs /\ Len(sent) < MaxSent /\ SendMessage
    \/ \E o \in Outcomes : SendPublishSettle(o)

SpecSend == Init /\ [][NextSend]_vars

----------------------------------------------------------------------------
(* The token server: POST /token (server.js:44-94) *)

\* the state of the client: the token server never writes it
\* the mute button with the microphone select of the Voice tab, from the
\* page's opening
NextMic ==
    \/ Mount
    \/ \E o \in Outcomes, mics \in DeviceLists : DevicesResolve(o, mics)
    \/ ConnectPath
    \/ DisconnectClick
    \/ \E r \in Rooms : DisconnectResume(r)
    \/ \E r \in Rooms : RoomDisconnected(r)
    \/ Len(mutePending) < MaxPendingMute /\ ToggleMuteClick
    \/ \E o \in Outcomes : ToggleMuteSettle(o)
    \/ \E id \in {"mic1", "mic2"} :
          Len(micPending) < MaxPendingMute /\ VoiceMicChange(id)
    \/ \E o \in Outcomes, an \in AnalyserOutcomes : VoiceMicSettle(o, an)

SpecMic == InitPrefs /\ [][NextMic]_vars

clientVars == <<connVars, panelVars, viewVars, composeVars, prefVars,
               contactVars, micOn, error, logs, handler>>

\* !v of a string member of the request body
Falsy(v) == v = Undefined \/ v = ""

\* the identity the client of request q sends
IdOf(q) == "user_" \o ToString(q)

\* const room = roomName || 'nevira-room'
RoomNameOf(rn) == IF Falsy(rn) THEN "nevira-room" ELSE rn

\* answers of roomService.getRoom(room): info with a participants list,
\* info without one, or a rejection
QueryAnswers == {"participants", "noList", "rejected"}

\* a failed occupancy query taken for a full room
SeenCountNoFallback(ans, n) ==
    IF ans = "participants" THEN n ELSE MaxParticipants

\* participants.length after the query: info.participants || [], and []
\* in the catch
SeenCount(ans, n) == IF ans = "participants" THEN n ELSE 0

\* the request ends with a response
Respond(r, status, token, respRoom) ==
    [r EXCEPT !.pc = "done", !.status = status, !.token = token,
              !.respRoom = respRoom]

\* what process.env holds for a credential: nothing, the empty string, or
\* a value
EnvValues == {Undefined, "", "APIxyz"}

\* the check with && in place of ||
ConfigMissingBoth(key, secret) == Falsy(key) /\ Falsy(secret)

\* !LIVEKIT_API_KEY || !LIVEKIT_API_SECRET (server.js:38)
ConfigMissing(key, secret) == Falsy(key) \/ Falsy(secret)

\* node runs server.js with the credentials key and secret in process.env:
\* if one is missing, process.exit(1) ends the process before app.listen is
\* reached; else the routes are in place and the server listens
ServerStart(key, secret) ==
    /\ srvProc.state = "loading"
    /\ srvProc' = IF ConfigMissing(key, secret)
                  THEN [state |-> "exited", code |-> 1, key |-> key,
                        secret |-> secret]
                  ELSE [state |-> "listening", code |-> 0, key |-> key,
                        secret |-> secret]
    /\ UNCHANGED <<srvReq, srvRoom, srvIssued, clientVars>>

\* POST /token arrives with a body {identity, roomName}: 400 without an
\* identity, else room = roomName || 'nevira-room' and
\* roomService.getRoom(room) is awaited
TokenRequest(q, identity, roomName) ==
    /\ srvProc.state = "listening"
    /\ srvReq[q].pc = "none"
    /\ \A o \in 1..(q - 1) : srvReq[o].pc # "none"
    /\ srvReq' = [srvReq EXCEPT ![q] =
          LET r == [@ EXCEPT !.identity = identity]
          IN  IF Falsy(identity) THEN Respond(r, "400", "none", "none")
              ELSE [r EXCEPT !.pc = "query", !.room = RoomNameOf(roomName)]]
    /\ UNCHANGED <<srvRoom, srvIssued, srvProc, clientVars>>

\* await roomService.getRoom(room) settles with answer ans: 403 when the
\* list is as long as the maximum, else the token is built and toJwt()
\* awaited
OccupancyAnswer(q, ans) ==
    /\ srvReq[q].pc = "query"
    /\ srvReq' = [srvReq EXCEPT ![q] =
          LET r == [@ EXCEPT !.query = ans]
          IN  IF SeenCount(ans, Cardinality(srvRoom)) >= MaxParticipants
              THEN Respond(r, "403", "none", "none")
              ELSE [r EXCEPT !.pc = "mint"]]
    /\ UNCHANGED <<srvRoom, srvIssued, srvProc, clientVars>>

\* await at.toJwt() settles: resolved, 200 {token, roomName: room};
\* rejected, the outer catch answers 500
MintSettle(q, o) ==
    /\ srvReq[q].pc = "mint"
    /\ srvReq' = [srvReq EXCEPT ![q] =
          IF o = "resolved" THEN Respond(@, "200", @.identity, @.room)
          ELSE Respond(@, "500", "none", "none")]
    /\ srvIssued' = IF o = "resolved" THEN srvIssued \cup {srvReq[q].identity}
                    ELSE srvIssued
    /\ UNCHANGED <<srvRoom, srvProc, clientVars>>

\* a client holding a token of the server joins the room (roomJoin grant)
Join(id) ==
    /\ id \in srvIssued \ srvRoom
    /\ srvRoom' = srvRoom \cup {id}
    /\ UNCHANGED <<srvReq, srvIssued, srvProc, clientVars>>

\* the agent joins with credentials of its own
AgentJoin(p) ==
    /\ p \notin srvRoom
    /\ srvRoom' = srvRoom \cup {p}
    /\ UNCHANGED <<srvReq, srvIssued, srvProc, clientVars>>

\* a participant leaves the room
Leave(id) ==
    /\ id \in srvRoom
    /\ srvRoom' = srvRoom \ {id}
    /\ UNCHANGED <<srvReq, srvIssued, srvProc, clientVars>>

\* the identities clients send
UserIds == {IdOf(q) : q \in ReqIds}

NextServer ==
    \/ \E key \in EnvValues, secret \in EnvValues : ServerStart(key, secret)
    \/ \E q \in ReqIds, rn \in {Undefined, "nevira-room"} :
           \E identity \in {Undefined, IdOf(q)} : TokenRequest(q, identity, rn)
    \/ \E q \in ReqIds, ans \in QueryAnswers : OccupancyAnswer(q, ans)
    \/ \E q \in ReqIds, o \in Outcomes : MintSettle(q, o)
    \/ \E id \in UserIds : Join(id)
    \/ \E p \in Ids : AgentJoin(p)
    \/ \E id \in UserIds \cup Ids : Leave(id)

SpecServer == Init /\ [][NextServer]_vars

----------------------------------------------------------------------------
(* The contact manager: ContactManager (part_000:20-62) *)

\* the page with the contact manager about to mount, storage holding what
\* it holds
InitContacts ==
    /\ contactStore \in ContactStores
    /\ autoConnect = Defaults.autoConnect
    /\ connecting = FALSE
    /\ att = "idle"
    /\ tokenReqs = 0
    /\ handler = "mount"
    /\ mounted = TRUE
    /\ storage = JsonStringify(Defaults.autoConnect, Defaults.fontSize,
                               Defaults.theme, Defaults.selectedMicId)
    /\ bootPrefs = NoBoot
    /\ InitRest

\* what can be typed in the two inputs, and String.trim() on it
NameTexts == {"", "  ", "Ann", " Bob "}
EmailTexts == {"", "a@x.io"}
TrimField(t) ==
    CASE t = "  " -> ""
      [] t = " Bob " -> "Bob"
      [] OTHER -> t

\* loadContacts: JSON.parse(getItem(KEY) || '[]'), and [] when it throws
LoadContacts(st) == IF st.syntax = "array" THEN st.items ELSE <<>>

\* saveContacts(list): setItem(KEY, JSON.stringify(list)) with outcome o;
\* an exception of setItem is caught and dropped
SaveContacts(st, list, o) ==
    IF o = "stored" THEN ContactsStringify(list) ELSE st

\* everything of the page the contact manager never writes
pageVars == <<connVars, panelVars, viewVars, composeVars, prefVars,
              serverVars, micOn, error, logs>>

\* the mount effect: setContacts(loadContacts())
ContactsMount ==
    /\ ~cmMounted
    /\ handler' = "contactsMount"
    /\ cmMounted' = TRUE
    /\ contacts' = LoadContacts(contactStore)
    /\ UNCHANGED <<editing, name, email, contactStore, now, pageVars>>

\* a millisecond passes
ClockAdvance ==
    /\ now < MaxClock
    /\ handler' = "clock"
    /\ now' = now + 1
    /\ UNCHANGED <<contacts, editing, name, email, contactStore, cmMounted,
                   pageVars>>

\* onChange of the two inputs
SetName(t) ==
    /\ cmMounted
    /\ t # name
    /\ handler' = "setName"
    /\ name' = t
    /\ UNCHANGED <<contacts, editing, email, contactStore, now, cmMounted,
                   pageVars>>

SetEmail(t) ==
    /\ cmMounted
    /\ t # email
    /\ handler' = "setEmail"
    /\ email' = t
    /\ UNCHANGED <<contacts, editing, name, contactStore, now, cmMounted,
                   pageVars>>

\* the Clear button
StartAdd ==
    /\ cmMounted
    /\ handler' = "startAdd"
    /\ editing' = NoEditing
    /\ name' = ""
    /\ email' = ""
    /\ UNCHANGED <<contacts, contactStore, now, cmMounted, pageVars>>

\* the Edit button of the i-th row
StartEdit(i) ==
    /\ cmMounted
    /\ i \in 1..Len(contacts)
    /\ handler' = "startEdit"
    /\ editing' = contacts[i].id
    /\ name' = contacts[i].name
    /\ email' = contacts[i].email
    /\ UNCHANGED <<contacts, contactStore, now, cmMounted, pageVars>>

\* if (!name.trim() || !email.trim()) return
SaveBlocked(nm, em) == TrimField(nm) = "" \/ TrimField(em) = ""

\* findIndex((x) => x.id === ed): the first match, 0 for -1
FindIndex(cs, ed) ==
    IF \E i \in 1..Len(cs) : cs[i].id = ed
    THEN CHOOSE i \in 1..Len(cs) :
            cs[i].id = ed /\ \A j \in 1..(i - 1) : cs[j].id # ed
    ELSE 0

\* save pushing a contact whether one is being edited or not
SaveNextAlwaysPushes(cs, ed, nm, em, t) ==
    Append(cs, Contact(t, TrimField(nm), TrimField(em)))

\* next of save: the contact being edited gets the trimmed name and email
\* (none if it is gone), or a contact with the id c_<Date.now()> is pushed
SaveNext(cs, ed, nm, em, t) ==
    IF ed # NoEditing
    THEN IF FindIndex(cs, ed) > 0
         THEN [cs EXCEPT ![FindIndex(cs, ed)] =
                  Contact(@.id, TrimField(nm), TrimField(em))]
         ELSE cs
    ELSE Append(cs, Contact(t, TrimField(nm), TrimField(em)))

\* the Save / Add button; o is the outcome of setItem
Save(o) ==
    /\ cmMounted
    /\ handler' = "save"
    /\ IF SaveBlocked(name, email)
       THEN /\ o = "stored"
            /\ UNCHANGED <<contacts, contactStore, name, email, editing>>
       ELSE /\ contacts' = SaveNext(contacts, editing, name, email, now)
            /\ contactStore' = SaveContacts(contactStore, contacts', o)
            /\ name' = ""
            /\ email' = ""
            /\ editing' = NoEditing
    /\ UNCHANGED <<now, cmMounted, pageVars>>

\* contacts.filter((c) => c.id !== id)
RemoveNext(cs, id) == SelectSeq(cs, LAMBDA c : c.id # id)

\* the Delete button of the i-th row; o is the outcome of setItem
Remove(i, o) ==
    /\ cmMounted
    /\ i \in 1..Len(contacts)
    /\ handler' = "remove"
    /\ contacts' = RemoveNext(contacts, contacts[i].id)
    /\ contactStore' = SaveContacts(contactStore, contacts', o)
    /\ UNCHANGED <<editing, name, email, now, cmMounted, pageVars>>

NextContacts ==
    \/ ContactsMount
    \/ ClockAdvance
    \/ \E t \in NameTexts : SetName(t)
    \/ \E t \in EmailTexts : SetEmail(t)
    \/ StartAdd
    \/ \E i \in 1..MaxContacts : StartEdit(i)
    \/ \E o \in {"stored", "throws"} :
          (editing = NoEditing => Len(contacts) < MaxContacts) /\ Save(o)
    \/ \E i \in 1..MaxContacts, o \in {"stored", "throws"} : Remove(i, o)

SpecContacts == InitContacts /\ [][NextContacts]_vars

TypeOK ==
    /\ room \in Rooms \cup {NoRoom}
    /\ connected \in BOOLEAN /\ connecting \in BOOLEAN
    /\ autoConnect \in BOOLEAN /\ loop \in BOOLEAN
    /\ gum \in 0..MaxGum
    /\ att \in {"idle", "token", "connect", "mic", "resume"}
    /\ attRoom \in Rooms \cup {NoRoom}
    /\ roomState \in [Rooms -> {"none", "connecting", "failed", "open",
                                "closing", "closed"}]
    /\ remote \in [Rooms -> SUBSET (Ids \cup EventIds)]
    /\ participants \subseteq UpdateParticipants(Ids \cup EventIds)
    /\ discPending \in [Rooms -> 0..MaxPendingDisc]
    /\ tokenReqs \in 0..MaxRooms
    /\ roomConnects \in 0..MaxRooms
    /\ attToken \in TokenOutcomes \cup {"none"}
    /\ Len(logs) <= LogCap
    /\ (att = "idle") = ~connecting

----------------------------------------------------------------------------
(* Properties of the session controller *)

\* C1: connected becomes true only in the step of a connect attempt whose
\* token request returned a success status and whose newRoom.connect()
\* resolved, and the room stored is that attempt's room.
C1_ConnectedOnlyAfterTokenAndRoomConnect ==
    [][(~connected /\ connected') =>
          /\ att # "idle"
          /\ attToken = "200"
          /\ attRoom # NoRoom
          /\ ConnectResolved(roomState, attRoom)
          /\ room' = attRoom]_vars

C1_Witness ==
    /\ connected
    /\ room # NoRoom
    /\ attToken = "200"
    /\ handler \in {"MicEnableResolved", "AudioResumeResolved",
                    "AudioResumeRejected"}

\* C2: no step taken while the controller is Connecting or Connected issues
\* a token request, and switching auto-connect on in such a state (the one
\* way left to ask for a connect: the Connect button is hidden or disabled)
\* starts no room connection and leaves the connection state as it is.
C2_ConnectRejectedUnlessDisconnected ==
    [][(connected \/ connecting) =>
          /\ tokenReqs' = tokenReqs
          /\ handler' = "SetAutoConnect" =>
                /\ roomConnects' = roomConnects
                /\ roomState' = roomState
                /\ connected' = connected
                /\ connecting' = connecting
                /\ att' = att]_vars

C2_Witness ==
    /\ handler = "SetAutoConnect"
    /\ autoConnect
    /\ tokenReqs < MaxRooms
    /\ connected \/ att \in {"connect", "mic", "resume"}

\* C3 (as claimed): whenever the controller is Disconnected with no attempt
\* in flight, no room this controller connected is still open without a
\* teardown having been asked for.
C3_IdleHasNoOpenRoom ==
    (~connected /\ ~connecting) => \A r \in Rooms : roomState[r] # "open"

\* C4 (as claimed): disconnectFromRoom called while an attempt is in flight
\* with its room already connected tears that room down.
C4_DisconnectWhileConnectingTearsDown ==
    \A r \in Rooms :
        (connecting /\ attRoom = r /\ roomState[r] = "open") =>
            /\ DisconnectTeardown(roomState, room)[r] # "open"
            /\ DisconnectIssued(discPending, room)[r] > discPending[r]

\* C5: disconnectFromRoom called with no stored room issues no
\* room.disconnect() and awaits nothing; and when two calls were made in a
\* row, the continuation of the second changes nothing the first left.
C5_DisconnectIdempotent ==
    [][/\ room = NoRoom =>
            /\ DisconnectIssued(discPending, room) = discPending
            /\ DisconnectTeardown(roomState, room) = roomState
       /\ (handler = "DisconnectResume" /\ handler' = "DisconnectResume") =>
            UNCHANGED <<room, connected, connecting, error, participants,
                        logs, loop, roomState, att, autoConnect>>]_vars

C5_Witness ==
    /\ handler = "DisconnectResume"
    /\ room = NoRoom
    /\ \E r \in Rooms : discPending[r] > 0 /\ roomState[r] = "closed"

\* C6: when a disconnectFromRoom call on room r completes, the connection
\* of r is down, the stored room is null, connected is false, the
\* participant list is empty and no tick of the meter is scheduled.
C6_DisconnectClearsSession ==
    [][\A r \in Rooms :
          discPending'[r] < discPending[r] =>
              /\ roomState'[r] = "closed"
              /\ room' = NoRoom
              /\ ~connected'
              /\ participants' = {}
              /\ ~loop']_vars

C6_Witness ==
    /\ handler = "DisconnectResume"
    /\ room = NoRoom /\ ~connected /\ participants = {}
    /\ logs = <<"Disconnected from room", "+ nevira_agent">>

\* C7 (as claimed): a Disconnected event the service initiated while the
\* controller is Connected leaves the state disconnectFromRoom leaves:
\* connected false, room null, no tick scheduled, and the participant list
\* as disconnectFromRoom sets it.
C7_RemoteDisconnectSameCleanup ==
    [][(connected /\ handler' = "RemoteDisconnected") =>
          /\ ~connected'
          /\ room' = NoRoom
          /\ ~loop'
          /\ participants' = DisconnectParticipants(participants)]_vars

\* C8: a token request that returns a status other than success, or fails
\* in transport, ends the attempt in that step: no newRoom.connect(), no
\* room touched, no further token request, connected and connecting false,
\* and the error set to the message of the failure.
C8_TokenFailureEndsAttempt ==
    [][(handler' = "TokenResolve" /\ attToken' # "200") =>
          /\ roomConnects' = roomConnects
          /\ roomState' = roomState
          /\ tokenReqs' = tokenReqs
          /\ ~connected' /\ ~connecting'
          /\ att' = "idle"
          /\ error' # "null"
          /\ error' = TokenErrorMsg(attToken')]_vars

C8_Witness ==
    /\ handler = "TokenResolve"
    /\ attToken = "403"
    /\ ~connected /\ ~connecting
    /\ error = "Token request failed: 403"

\* C9 (as claimed): a failure of the microphone-enable call or of the
\* audio-context resume is swallowed: no error is set and the attempt goes
\* on to Connected.
C9_PeripheralFailuresSwallowed ==
    /\ handler = "MicEnableRejected" =>
            (error = "null" /\ (connecting \/ connected))
    /\ handler = "AudioResumeRejected" => (error = "null" /\ connected)

\* C10: a token request is issued only by a click on Connect or by
\* switching auto-connect on, and newRoom.connect() only by the attempt
\* such a request started; a failed attempt and a Disconnected event issue
\* neither.
C10_NoAutomaticReconnect ==
    [][/\ tokenReqs' # tokenReqs =>
            \/ handler' = "ConnectClick"
            \/ handler' = "SetAutoConnect" /\ ~autoConnect /\ autoConnect'
       /\ roomConnects' # roomConnects =>
            (att = "token" /\ handler' = "TokenResolve")]_vars

C10_Witness ==
    /\ handler = "RemoteDisconnected"
    /\ autoConnect
    /\ ~connected /\ ~connecting
    /\ tokenReqs < MaxRooms

\* C11: when every awaited step of connectToRoom eventually settles, an
\* attempt in flight (connecting true) eventually ends: connecting is false
\* and no attempt is in flight, the controller being Connected or
\* Disconnected.
C11_AttemptLeavesConnecting ==
    connecting ~> (~connecting /\ att = "idle")

C11_Witness ==
    /\ ~connecting /\ att = "idle"
    /\ tokenReqs = MaxRooms
    /\ attToken = "200"
    /\ handler \in {"RoomConnectResolve", "MicEnableRejected",
                    "MicEnableResolved", "AudioResumeResolved"}

\* C12 (as claimed): once the controller is Disconnected with no attempt in
\* flight, no tick of the meter is scheduled, also when a getUserMedia
\* fallback of the meter settles after the disconnect.
C12_NoLoopAfterDisconnect ==
    (~connected /\ ~connecting /\ room = NoRoom) => ~loop

----------------------------------------------------------------------------
(* Properties of the data channel, the tools panel, the log and the mute
   button *)

\* the discriminators of the messages the data channel carries
KnownTypes == {"user_command", "assistant_message", "email_popup_trigger"}

\* C13 (as claimed): a delivered payload that is not blank and is not a
\* message of a known type (it is not JSON, or it is JSON whose type is
\* missing or unknown) appends one assistant entry carrying the payload
\* text, and sets no error.
C13_UnparsedPayloadShownAsText ==
    [][(/\ handler' = "DataReceived"
        /\ Trim(lastPayload'.raw) # ""
        /\ \/ lastPayload'.syntax # "object"
           \/ Field(lastPayload', "type") \notin KnownTypes) =>
          /\ messages' = Append(messages,
                                ChatEntry("assistant", lastPayload'.raw, <<>>))
          /\ error' = error]_vars

\* C14: a delivered JSON object of type assistant_message appends exactly
\* one entry, of sender assistant, whose text is the message member (the
\* text member when message is absent or empty) and whose images are the
\* images member (none when absent); one of type email_popup_trigger sets
\* showEmailPopup and appends no entry; a payload that is not JSON and not
\* blank appends exactly one assistant entry whose text is the payload.
C14_DecodeDispatchesOnType ==
    [][handler' = "DataReceived" =>
          LET p == lastPayload'
              n == Len(messages)
          IN  /\ (p.syntax = "object" /\ Field(p, "type") = "assistant_message") =>
                    /\ Len(messages') = n + 1
                    /\ SubSeq(messages', 1, n) = messages
                    /\ messages'[n + 1].sender = "assistant"
                    /\ messages'[n + 1].text =
                          IF HasField(p, "message") /\ Field(p, "message") # ""
                          THEN Field(p, "message") ELSE Field(p, "text")
                    /\ messages'[n + 1].images =
                          IF HasField(p, "images") THEN Field(p, "images")
                          ELSE <<>>
              /\ (p.syntax = "object" /\ Field(p, "type") = "email_popup_trigger") =>
                    /\ showEmailPopup'
                    /\ messages' = messages
              /\ (p.syntax = "invalid" /\ p.raw \notin BlankTexts) =>
                    /\ Len(messages') = n + 1
                    /\ SubSeq(messages', 1, n) = messages
                    /\ messages'[n + 1] = ChatEntry("assistant", p.raw, <<>>)]_vars

C14_Witness ==
    /\ handler = "DataReceived"
    /\ Len(messages) = MaxMsgs
    /\ messages[1] = ChatEntry("assistant", "plain words", <<>>)
    /\ messages[MaxMsgs] = ChatEntry("assistant", "shown", <<"a.png">>)
    /\ showEmailPopup

\* C15: triggerTool on a tool other than send_email while connected makes
\* exactly one publishData call, on the stored room and reliable, whose
\* data is a JSON object with type user_command and text the prompt of the
\* tool; called while not connected, on any tool, it makes none.
C15_ToolSendsOneReliableCommand ==
    [][\A key \in ToolKeys :
          /\ (key # EmailTool /\ connected /\ handler' = ToolHandler(key)) =>
                /\ Len(sent') = Len(sent) + 1
                /\ SubSeq(sent', 1, Len(sent)) = sent
                /\ sent'[Len(sent')].reliable
                /\ sent'[Len(sent')].room = room
                /\ sent'[Len(sent')].data.syntax = "object"
                /\ Field(sent'[Len(sent')].data, "type") = "user_command"
                /\ Field(sent'[Len(sent')].data, "text") = Tools[key].prompt
          /\ ~connected =>
                /\ ToolSent(key, connected, room, sent) = sent
                /\ ToolAwaited(key, connected, room, toolPending) = toolPending]_vars

C15_Witness ==
    /\ handler = ToolHandler("open_application")
    /\ Len(sent) = MaxSent
    /\ Field(sent[MaxSent].data, "text") = "Open calculator"
    /\ sent[MaxSent].room = MaxRooms

\* C16: triggerTool on send_email makes no publishData call and awaits
\* none in any state of the controller, and a run of it changes nothing
\* but showEmailPopup, which it sets.
C16_EmailToolOnlyOpensPopup ==
    [][/\ ToolSent(EmailTool, connected, room, sent) = sent
       /\ ToolAwaited(EmailTool, connected, room, toolPending) = toolPending
       /\ handler' = ToolHandler(EmailTool) =>
             /\ showEmailPopup'
             /\ UNCHANGED <<connVars, serverVars, micOn, error, logs, muted, mutePending,
                            messages, sent, toolPending, lastPayload>>]_vars

C16_Witness ==
    /\ handler = ToolHandler(EmailTool)
    /\ showEmailPopup
    /\ Len(sent) = 1
    /\ toolPending # <<>>

\* the handlers that add an entry to the log, with the entries each adds
LogEntries ==
    [ParticipantConnected |-> {"+ " \o p : p \in Ids},
     ParticipantDisconnected |-> {"- " \o p : p \in Ids},
     RemoteDisconnected |-> {"Disconnected from room"},
     LocalDisconnected |-> {"Disconnected from room"}]

\* C17: the log never holds more than 50 entries; a handler that adds an
\* entry leaves it first, followed by the entries the log held, in their
\* order, the oldest dropped when the log held 50.
C17_LogIsBoundedRing ==
    [][/\ Len(logs') <= LogCap
       /\ handler' \in DOMAIN LogEntries =>
             /\ logs' # <<>>
             /\ Head(logs') \in LogEntries[handler']
             /\ Tail(logs') =
                   SubSeq(logs, 1, IF Len(logs) = LogCap THEN LogCap - 1
                                                        ELSE Len(logs))]_vars

C17_Witness ==
    /\ Len(logs) = LogCap
    /\ handler = "ParticipantConnected"
    /\ logs[1] = "+ nevira_agent"
    /\ logs[LogCap] = "- nevira_agent"

\* C18 (as claimed): toggleMute called while not connected awaits nothing;
\* a toggleMute on the stored room that completes while connected flips
\* the published state of the local microphone and the muted flag, and
\* leaves connected, connecting, the room and the participants as they
\* are.
C18_ToggleMuteFlipsMicAndFlag ==
    [][/\ ~connected =>
             ToggleMuteIssued(mutePending, room, muted) = mutePending
       /\ (/\ connected
           /\ handler' = "ToggleMuteResolved"
           /\ Head(mutePending).room = room
           /\ roomState[room] = "open") =>
             /\ micOn'[room] = ~micOn[room]
             /\ muted' = ~muted
             /\ UNCHANGED <<connected, connecting, room, participants>>]_vars

----------------------------------------------------------------------------
(* Properties of the token server *)

\* C19: POST /token is answered at once, with 400, exactly when the
\* identity is missing; the occupancy answer ends the request, with 403,
\* exactly when it lists at least MaxParticipants members, whatever else
\* (a shorter list, no list, a failed query) lets it go on; and a request
\* that went on is answered 200 with a token for its identity and the room
\* name, or 500 (toJwt() failed).
C19_TokenResponses ==
    [][\A q \in ReqIds :
          LET r == srvReq[q]
              n == srvReq'[q]
          IN  /\ (r.pc = "none" /\ n.pc # "none") =>
                    IF Falsy(n.identity)
                    THEN n.pc = "done" /\ n.status = "400"
                    ELSE n.pc = "query"
              /\ (r.pc = "query" /\ n.pc # "query") =>
                    IF n.query = "participants"
                       /\ Cardinality(srvRoom) >= MaxParticipants
                    THEN n.pc = "done" /\ n.status = "403"
                    ELSE n.pc = "mint"
              /\ (r.pc = "mint" /\ n.pc # "mint") =>
                    /\ n.pc = "done"
                    /\ \/ /\ n.status = "200"
                          /\ n.token = r.identity
                          /\ n.respRoom = "nevira-room"
                       \/ n.status = "500"]_vars

C19_Witness ==
    /\ srvReq[1].status = "200" /\ srvReq[1].query = "rejected"
    /\ srvReq[2].status = "403"
    /\ srvReq[3].status = "400" /\ Cardinality(srvRoom) = MaxParticipants

\* C20 (as claimed): the identities that hold a token of the server and
\* are in the room are never more than MaxParticipants.
C20_OccupancyCapHolds ==
    Cardinality(srvRoom \cap srvIssued) <= MaxParticipants

\* a window of silence, and a full-scale square wave
IsSilent(w) == Len(w) > 0 /\ \A i \in 1..Len(w) : w[i] = Mid
IsSquareWave(w) ==
    /\ Len(w) > 1
    /\ \A i \in 1..Len(w) : w[i] \in {0, 255}
    /\ \A i \in 1..(Len(w) - 1) : w[i] # w[i + 1]

\* C21: the level the meter writes is an integer of 0..100 for every window
\* of bytes; a window of silence (all 128) gives 0 and a full-scale square
\* wave alternating 0 and 255 gives 100.
C21_LevelInRange ==
    /\ micLevel \in 0..LevelMax
    /\ IsSilent(lastWindow) => micLevel = 0
    /\ IsSquareWave(lastWindow) => micLevel = LevelMax

\* a tick read a square wave and wrote 100; the level before was in between
C21_Witness ==
    /\ handler = "tick"
    /\ IsSquareWave(lastWindow)
    /\ micLevel = LevelMax

\* C22: when a required credential is unset the token server's process
\* exits with a non-zero status, and it never listens nor handles a request.
C22_ExitsWithoutCredentials ==
    (srvProc.state # "loading"
        /\ (Falsy(srvProc.key) \/ Falsy(srvProc.secret)))
    => /\ srvProc.state = "exited"
       /\ srvProc.code # 0
       /\ \A q \in ReqIds : srvReq[q].pc = "none"

\* the process has exited with the key set and the secret unset, and the
\* room lives on without it
C22_Witness ==
    /\ srvProc.state = "exited"
    /\ ~Falsy(srvProc.key)
    /\ srvProc.secret = Undefined
    /\ srvRoom # {}

\* the message of the action that failed in this step ("none": no action
\* failed)
StepFailure ==
    CASE handler' = "TokenResolve" /\ attToken' # "200" ->
            IF attToken' = "network" THEN "Failed to fetch"
            ELSE "Token request failed: " \o attToken'
      [] handler' = "RoomConnectResolve" /\ att' = "idle" -> "could not connect"
      [] handler' = "MicEnableRejected" -> "microphone error"
      [] handler' = "ToolPublishRejected" ->
            "Failed to send command to assistant. Please speak the request."
      [] handler' = "SendPublishRejected" ->
            "Failed to send message. Please speak the request."
      [] handler' = "EmailPublishRejected" ->
            "Failed to send email command to assistant"
      [] handler' = "handleEmailSubmit" /\ FormIncomplete(emailForm) ->
            "Please fill in all email fields"
      [] handler' = "handleEmailSubmit" /\ ~FormIncomplete(emailForm)
            /\ (~connected \/ room = NoRoom) -> "Not connected to assistant"
      [] OTHER -> "none"

\* C23: the error is one replaceable value: a step that starts a connect
\* attempt leaves it cleared when the token request is issued, a step in
\* which an action fails leaves it at that action's message, and no other
\* step changes it, so it never holds more than the message of the most
\* recent failed action.
C23_ErrorIsSingleReplaceableValue ==
    [][/\ tokenReqs' # tokenReqs => error' = "null"
       /\ StepFailure # "none" => error' = StepFailure
       /\ error' # error =>
             \/ error' = "null" /\ tokenReqs' = tokenReqs + 1
             \/ error' = StepFailure]_vars

\* the second connect attempt cleared the error, and the email form,
\* submitted while that attempt is in flight, has set its own
C23_Witness ==
    /\ handler = "handleEmailSubmit"
    /\ error = "Not connected to assistant"
    /\ connecting
    /\ tokenReqs = 2

\* C24: preferences round-trip through local storage: once the start-up
\* on stored preferences P (written by an earlier run, naming a
\* microphone) has ended, and until the user changes a setting, the
\* settings in memory and storage both equal P; and storage always holds
\* the settings in memory.
C24_PrefsRoundTrip ==
    /\ mounted => storage = JsonStringify(autoConnect, fontSize, theme,
                                          selectedMicId)
    /\ (mounted /\ devPending = <<>> /\ bootPrefs \in WrittenPrefs
            /\ bootPrefs.selectedMicId.v # "")
        => /\ autoConnect = (bootPrefs.autoConnect.v = "true")
           /\ fontSize = bootPrefs.fontSize.v
           /\ theme = bootPrefs.theme.v
           /\ selectedMicId = bootPrefs.selectedMicId.v
           /\ storage = bootPrefs

\* C25: agentSpeaking is true for the whole 3-second window an agent's
\* audio subscription starts: it is false only when no window is still
\* running.
C25_AgentSpeakingWhileWindowRuns ==
    (\E i \in 1..Len(agentTimers) : agentTimers[i] > 0) => agentSpeaking

\* C29: after an active-speakers-changed event the speaking flag is true
\* iff the local participant is among the reported speakers.
C29_SpeakingIffLocalReported ==
    handler = "ActiveSpeakersChanged"
    => (speaking <=> LocalIdentity \in {s.identity : s \in lastSpeakers})

\* the agent and the local participant were reported together
C29_Witness ==
    /\ handler = "ActiveSpeakersChanged"
    /\ Cardinality(lastSpeakers) = 2
    /\ speaking

\* C26: after a participant-connected or participant-disconnected event
\* the participant list has one entry for each remote participant of the
\* room, the entry marked as agent iff the identity contains "agent" or
\* "nevira"; the log got exactly one entry, for the event; and a
\* participant the event removed has no entry.
C26_ParticipantListFollowsRoom ==
    [][handler' \in {"ParticipantConnected", "ParticipantDisconnected"} =>
         \E r \in Rooms :
            /\ remote'[r] # remote[r]
            /\ {e.identity : e \in participants'} = remote'[r]
            /\ Cardinality(participants') = Cardinality(remote'[r])
            /\ \A e \in participants' :
                    e.isAgent <=> e.identity \in {"nevira-bot", "agent-7",
                                                  "nevira_agent"}
            /\ Len(logs') = Len(logs) + 1
            /\ Tail(logs') = logs
            /\ \E p \in remote[r] \cup remote'[r] :
                    Head(logs') = (IF p \in remote[r] THEN "- " ELSE "+ ") \o p
            /\ \A p \in remote[r] \ remote'[r] :
                    \A e \in participants' : e.identity # p]_vars

\* an agent has left a room in which a user stays
C26_Witness ==
    /\ handler = "ParticipantDisconnected"
    /\ logs # <<>> /\ Head(logs) = "- nevira-bot"
    /\ participants = {[identity |-> "user_42", isAgent |-> FALSE]}

\* C27: connectToRoom registers the listeners on the room before it
\* issues the room's connect call: a room whose connect was issued has
\* its listeners, so every event it emits reaches a handler.
C27_ListenersBeforeConnect ==
    \A r \in Rooms : roomState[r] # "none" => listeners[r]

\* a participant-connected event was handled while connectToRoom still
\* awaits the microphone
C27_Witness ==
    /\ handler = "ParticipantConnected"
    /\ att = "mic"
    /\ ~connected
    /\ participants # {}

\* C28: the chat is append-only: whatever payload is received or message
\* sent, the chat before the step is a prefix of the chat after it, so no
\* entry is removed, reordered or modified.
C28_ChatIsAppendOnly ==
    [][/\ Len(messages') >= Len(messages)
       /\ SubSeq(messages', 1, Len(messages)) = messages]_vars

\* a message of the user follows a message of the assistant
C28_Witness ==
    /\ handler = "sendMessage"
    /\ Len(messages) = 2
    /\ messages[1].sender = "assistant"
    /\ messages[2] = [sender |-> "user", text |-> "hello", images |-> <<>>]

\* C30: between handlers the stored room is non-null iff connected is
\* true: connect success, the explicit disconnect and the remote
\* Disconnected event each set the two together.
C30_RoomStoredIffConnected ==
    (room # NoRoom) <=> connected

\* the remote Disconnected event has cleared both after a second connect
\* had set both
C30_Witness ==
    /\ handler = "RemoteDisconnected"
    /\ room = NoRoom
    /\ ~connected
    /\ roomConnects = 2

----------------------------------------------------------------------------
(* Properties that hold across handlers of the session *)

\* C31 (as claimed): whenever connected is true the connection of the
\* stored room is up: a Disconnected event of the attempt's room delivered
\* while connectToRoom is suspended (after newRoom.connect() resolved) never
\* leaves the controller connected with a room that has already
\* disconnected.
C31_ConnectedRoomIsOpen ==
    (connected /\ room # NoRoom) => IsOpen(roomState, room)

\* C32 (as claimed): whenever the controller is connected to an open room
\* and no microphone call is in flight, muted is true exactly when the
\* local microphone is not published, whatever sequence of toggleMute,
\* disconnect, connect and microphone change led there.
C32_MutedAgreesWithMicrophone ==
    (/\ connected /\ room # NoRoom /\ roomState[room] = "open"
     /\ ~connecting /\ mutePending = <<>> /\ micPending = <<>>) =>
        (muted <=> ~micOn[room])

\* C33 (as claimed): once a connect attempt has scheduled the meter's tick
\* (on the published local track, before its last suspension) and reaches
\* connected, and from then on while connected, the tick stays scheduled:
\* the cleanup that runs when the stored room changes from null to the new
\* room does not cancel it.
C33_LoopSurvivesConnect ==
    [][(loop /\ connected' /\ (connected \/ att = "resume")) => loop']_vars

\* C34: sendMessage with an input that is not blank, while connected,
\* appends one entry of the user with the input's text, clears the input
\* and publishes one reliable user_command carrying the same text; with a
\* blank input, or while not connected, it appends nothing and publishes
\* nothing; and when the publish is rejected the chat is left as it is
\* (the entry stays) and the error is set.
C34_SendMessageAppendsAndPublishes ==
    [][/\ handler' = "sendMessage" =>
            IF Trim(inputMessage) # "" /\ connected
            THEN /\ messages' = messages \o
                        <<[sender |-> "user", text |-> inputMessage,
                           images |-> <<>>]>>
                 /\ inputMessage' = ""
                 /\ Len(sent') = Len(sent) + 1
                 /\ sent'[Len(sent')].room = room
                 /\ sent'[Len(sent')].reliable
                 /\ Field(sent'[Len(sent')].data, "type") = "user_command"
                 /\ Field(sent'[Len(sent')].data, "text") = inputMessage
                 /\ SubSeq(sent', 1, Len(sent)) = sent
            ELSE UNCHANGED <<messages, sent, inputMessage>>
       /\ ~connected =>
            /\ SendMessages(inputMessage, connected, room, messages)
                  = messages
            /\ SendSent(inputMessage, connected, room, sent) = sent
       /\ handler' = "SendPublishRejected" =>
            /\ messages' = messages
            /\ error' = "Failed to send message. Please speak the request."]_vars

\* a message was sent, stays in the chat, and its publish was rejected
C34_Witness ==
    /\ handler = "SendPublishRejected"
    /\ error = "Failed to send message. Please speak the request."
    /\ Len(messages) = 1
    /\ messages[1] = [sender |-> "user", text |-> "hello", images |-> <<>>]
    /\ inputMessage = ""
    /\ Len(sent) = 1 /\ sent[1].reliable

====
